---------------------------- MODULE Spec2Model ----------------------------
(***************************************************************************)
(* Model of the PDF export pipeline of the Markdown editor:                *)
(*   src/src/lib/pdfGenerator.ts  BackgroundPDFGenerator (element variant) *)
(*   src/src/lib/pdfUtils.ts      BackgroundPDFGenerator (HTML-string      *)
(*                                variant), validatePDFOptions             *)
(* The generator runs in a browser (window is defined).                    *)
(*                                                                         *)
(* JavaScript numbers are modelled as exact non-negative rationals         *)
(* [n |-> numerator, d |-> denominator] whose numerator and denominator    *)
(* are unbounded naturals, kept as little-endian sequences of base-10000   *)
(* limbs (the products of the geometry code exceed 32 bits).  IEEE         *)
(* rounding is not modelled.                                               *)
(***************************************************************************)
EXTENDS Integers, Sequences, FiniteSets, TLC

(***************************************************************************)
(* Unbounded naturals.                                                     *)
(***************************************************************************)
RECURSIVE BNat(_)
BNat(k) == IF k = 0 THEN <<>> ELSE <<k % 10000>> \o BNat(k \div 10000)

RECURSIVE BTrim(_)
BTrim(s) ==
  IF s = <<>> THEN <<>>
  ELSE IF s[Len(s)] = 0 THEN BTrim(SubSeq(s, 1, Len(s) - 1)) ELSE s

RECURSIVE BCarry(_, _)
BCarry(s, c) ==
  IF s = <<>> THEN BNat(c)
  ELSE LET v == Head(s) + c
       IN  <<v % 10000>> \o BCarry(Tail(s), v \div 10000)

BLimb(a, i) == IF i >= 1 /\ i <= Len(a) THEN a[i] ELSE 0

BMax(x, y) == IF x >= y THEN x ELSE y

BAdd(a, b) ==
  BTrim(BCarry([i \in 1..BMax(Len(a), Len(b)) |-> BLimb(a, i) + BLimb(b, i)], 0))

RECURSIVE BConv(_, _, _, _)
BConv(a, b, k, i) ==
  IF i > Len(a) THEN 0
  ELSE a[i] * BLimb(b, k - i + 1) + BConv(a, b, k, i + 1)

BMul(a, b) ==
  IF a = <<>> \/ b = <<>> THEN <<>>
  ELSE BTrim(BCarry([k \in 1..(Len(a) + Len(b) - 1) |-> BConv(a, b, k, 1)], 0))

RECURSIVE BLessFrom(_, _, _)
BLessFrom(a, b, i) ==
  IF i = 0 THEN FALSE
  ELSE IF a[i] # b[i] THEN a[i] < b[i] ELSE BLessFrom(a, b, i - 1)

BLess(a, b) ==
  IF Len(a) # Len(b) THEN Len(a) < Len(b) ELSE BLessFrom(a, b, Len(a))

BLeq(a, b) == ~BLess(b, a)

\* a - b for a >= b
RECURSIVE BBorrow(_, _, _, _)
BBorrow(a, b, i, br) ==
  IF i > Len(a) THEN <<>>
  ELSE LET v == a[i] - BLimb(b, i) - br
       IN  IF v < 0 THEN <<v + 10000>> \o BBorrow(a, b, i + 1, 1)
           ELSE <<v>> \o BBorrow(a, b, i + 1, 0)

BSub(a, b) == BTrim(BBorrow(a, b, 1, 0))

(***************************************************************************)
(* Numbers: exact rationals over the naturals above.                       *)
(***************************************************************************)
Rat(p, q) == [n |-> BNat(p), d |-> BNat(q)]

RInt(k) == Rat(k, 1)

RMul(x, y) == [n |-> BMul(x.n, y.n), d |-> BMul(x.d, y.d)]

RDiv(x, y) == [n |-> BMul(x.n, y.d), d |-> BMul(x.d, y.n)]

RAdd(x, y) ==
  IF x.d = y.d THEN [n |-> BAdd(x.n, y.n), d |-> x.d]
  ELSE [n |-> BAdd(BMul(x.n, y.d), BMul(y.n, x.d)), d |-> BMul(x.d, y.d)]

\* x - y for x >= y
RSub(x, y) ==
  IF x.d = y.d THEN [n |-> BSub(x.n, y.n), d |-> x.d]
  ELSE [n |-> BSub(BMul(x.n, y.d), BMul(y.n, x.d)), d |-> BMul(x.d, y.d)]

RLess(x, y) == BLess(BMul(x.n, y.d), BMul(y.n, x.d))

RLeq(x, y) == ~RLess(y, x)

REq(x, y) == BMul(x.n, y.d) = BMul(y.n, x.d)

\* Math.min
RMin(x, y) == IF RLeq(x, y) THEN x ELSE y

\* Math.ceil of a non-negative number, as an integer
RECURSIVE RCeilFrom(_, _)
RCeilFrom(x, k) ==
  IF BLeq(x.n, BMul(BNat(k), x.d)) THEN k ELSE RCeilFrom(x, k + 1)

RCeil(x) == RCeilFrom(x, 0)

(***************************************************************************)
(* Bounds of the model.                                                    *)
(***************************************************************************)
\* calls of generatePDF and cancel() made on the one generator instance
MaxOps == 3

\* the generatePDF calls, in the order they are made
Calls == 1..MaxOps

(***************************************************************************)
(* Options (PDFGenerationOptions).  A record holds the fields the caller   *)
(* supplied; an omitted field is absent from the record's domain.          *)
(* quality is in hundredths (0.98 is 98), scale in tenths (2 is 20),       *)
(* margins in mm.  quality and scale are JavaScript numbers that may be    *)
(* NaN: the number n is <<n>>, NaN is <<>>.                                *)
(***************************************************************************)
Has(o, f) == f \in DOMAIN o

Num(n) == <<n>>

NaN == <<>>

\* x < y on numbers: false when either is NaN
NumLess(x, y) == x # NaN /\ y # NaN /\ x[1] < y[1]

\* the options the calls of Spec draw from
CallOptions ==
  { [filename |-> "doc", pageSize |-> "a4", orientation |-> "portrait",
     quality |-> Num(98), scale |-> Num(20)],
    [filename |-> "doc", quality |-> Num(150)] }

\* validatePDFOptions: the defaults of the destructuring
Default(o, f, v) == IF Has(o, f) THEN o[f] ELSE v

WithDefaults(o) ==
  [ filename    |-> Default(o, "filename", "document"),
    title       |-> Default(o, "title", "Markdown Document"),
    author      |-> Default(o, "author", "Markdown Editor"),
    subject     |-> Default(o, "subject", "Generated from Markdown"),
    keywords    |-> Default(o, "keywords", "markdown, pdf, export"),
    pageSize    |-> Default(o, "pageSize", "a4"),
    orientation |-> Default(o, "orientation", "portrait"),
    margin      |-> Default(o, "margin", [top |-> 20, right |-> 20, bottom |-> 20, left |-> 20]),
    quality     |-> Default(o, "quality", Num(98)),
    scale       |-> Default(o, "scale", Num(20)) ]

\* validatePDFOptions: the message of the error thrown, "" when none is
ValidationError(o) ==
  LET v == WithDefaults(o)
  IN  IF v.filename = "" THEN "Filename must be a non-empty string"
      ELSE IF NumLess(v.quality, Num(10)) \/ NumLess(Num(100), v.quality)
           THEN "Quality must be between 0.1 and 1"
      ELSE IF NumLess(v.scale, Num(5)) \/ NumLess(Num(50), v.scale)
           THEN "Scale must be between 0.5 and 5"
      ELSE IF v.pageSize \notin {"a4", "letter", "legal"} THEN "Page size must be a4, letter, or legal"
      ELSE IF v.orientation \notin {"portrait", "landscape"} THEN "Orientation must be portrait or landscape"
      ELSE ""

validatePDFOptions(o) ==
  IF ValidationError(o) = "" THEN [ok |-> TRUE, value |-> WithDefaults(o), error |-> ""]
  ELSE [ok |-> FALSE, value |-> WithDefaults(o), error |-> ValidationError(o)]

(***************************************************************************)
(* Page geometry of generatePDF / createPDFFromCanvas.                     *)
(***************************************************************************)
PageWidth(o) ==
  IF Has(o, "pageSize") /\ o.pageSize = "a4" THEN 210
  ELSE IF Has(o, "pageSize") /\ o.pageSize = "letter" THEN 216 ELSE 216

PageHeight(o) ==
  IF Has(o, "pageSize") /\ o.pageSize = "a4" THEN 297
  ELSE IF Has(o, "pageSize") /\ o.pageSize = "letter" THEN 279 ELSE 356

Margin(o) ==
  IF Has(o, "margin") THEN o.margin
  ELSE [top |-> 20, right |-> 20, bottom |-> 20, left |-> 20]

ContentWidth(o) == PageWidth(o) - Margin(o).left - Margin(o).right

ContentHeight(o) == PageHeight(o) - Margin(o).top - Margin(o).bottom

\* the literal 0.264583 (mm per pixel)
MmPerPx == Rat(264583, 1000000)

ImgWidthMM(c) == RMul(RInt(c.width), MmPerPx)

ImgHeightMM(c) == RMul(RInt(c.height), MmPerPx)

ScaleX(c, o) == RDiv(RInt(ContentWidth(o)), ImgWidthMM(c))

FinalScale(c, o) == RMin(ScaleX(c, o), Rat(12, 10))

FinalWidth(c, o) == RMul(ImgWidthMM(c), FinalScale(c, o))

FinalHeight(c, o) == RMul(ImgHeightMM(c), FinalScale(c, o))

\* finalHeight <= contentHeight: the content fits on one page
FitsOnePage(c, o) == RLeq(FinalHeight(c, o), RInt(ContentHeight(o)))

(***************************************************************************)
(* addImageToPDF(pdf, imgData, imgWidth, imgHeight, pageContentHeight, ..) *)
(* as createPDFFromCanvas calls it: imgHeight is finalHeight and           *)
(* pageContentHeight is contentHeight.                                     *)
(***************************************************************************)
PageContentHeightPx(pageContentHeight) == RDiv(pageContentHeight, MmPerPx)

TotalPages(imgHeight, pageContentHeight) ==
  RCeil(RDiv(imgHeight, PageContentHeightPx(pageContentHeight)))

\* a page percent that counts the page being generated as done and spreads
\* the pages over 60-100
PageProgress_UpToHundred(page, totalPages) ==
  RAdd(RInt(60), RMul(Rat(page + 1, totalPages), RInt(40)))

\* a page percent that stays at the 60 of the stage
PageProgress_Flat(page, totalPages) == RInt(60)

\* 60 + (currentPage / totalPages) * 30
PageProgress(page, totalPages) ==
  RAdd(RInt(60), RMul(Rat(page, totalPages), RInt(30)))

(***************************************************************************)
(* The element's inline style.                                             *)
(***************************************************************************)
\* the keys of originalStyles
StyleProps ==
  { "width", "height", "overflow", "position", "top", "left", "zIndex",
    "backgroundColor", "color", "fontFamily", "fontSize", "lineHeight",
    "padding", "boxSizing" }

FontStack == "-apple-system, BlinkMacSystemFont, \"Segoe UI\", \"Roboto\", \"Oxygen\", \"Ubuntu\", \"Cantarell\", \"Fira Sans\", \"Droid Sans\", \"Helvetica Neue\", sans-serif"

\* the styles prepareElementForRendering leaves on the element
PreparedStyles(st, pageWidth, margin) ==
  [ st EXCEPT
      !["width"] = ToString(pageWidth - margin.left - margin.right) \o "mm",
      !["height"] = "auto",
      !["overflow"] = "visible",
      !["position"] = "static",
      !["backgroundColor"] = "white",
      !["color"] = "black",
      !["fontFamily"] = FontStack,
      !["fontSize"] = "14pt",
      !["lineHeight"] = "1.6",
      !["padding"] = "20mm",
      !["boxSizing"] = "border-box" ]

\* restoreElementStyles: every key of originalStyles is assigned back
RestoredStyles(st, originalStyles) ==
  [p \in DOMAIN st |-> IF p \in DOMAIN originalStyles THEN originalStyles[p] ELSE st[p]]

\* the inline styles an element may carry before any export
ElementStyles ==
  { [p \in StyleProps |-> ""],
    [ width |-> "100%", height |-> "400px", overflow |-> "auto",
      position |-> "relative", top |-> "", left |-> "", zIndex |-> "1",
      backgroundColor |-> "", color |-> "navy", fontFamily |-> "serif",
      fontSize |-> "12px", lineHeight |-> "", padding |-> "8px",
      boxSizing |-> "" ] }

\* the originalStyles record prepareElementForRendering returns
OriginalStyles(st) == [p \in StyleProps |-> st[p]]

(***************************************************************************)
(* What the environment may hand to a run.                                 *)
(***************************************************************************)
\* the canvases html2canvas may resolve with (pixels)
Canvases ==
  { [width |-> 1000, height |-> 1000],
    [width |-> 1000, height |-> 6000] }

\* the messages html2canvas may reject with
RenderErrors == { "Unable to render element", "" }

\* error.message || 'Failed to generate PDF'
ErrorMessage(msg) == IF msg = "" THEN "Failed to generate PDF" ELSE msg

Success == [success |-> TRUE, error |-> "", blob |-> TRUE]

Failure(msg) == [success |-> FALSE, error |-> msg, blob |-> FALSE]

Event(stage, progress) == [stage |-> stage, progress |-> progress]

(***************************************************************************)
(* State.                                                                  *)
(*   generatorClass   the module the generator's class comes from          *)
(*   isGenerating, isCancelled   the generator's fields                    *)
(*   style            element.style of the element every call is given     *)
(*   pc[r]            where call r of generatePDF stands:                  *)
(*                      "new"          not made yet                        *)
(*                      "import"       awaiting import("html2pdf.js")      *)
(*                      "delay"        awaiting delay(50)                  *)
(*                      "renderTimer"  awaiting the timer of               *)
(*                                     renderElementToCanvas               *)
(*                      "html2canvas"  awaiting html2canvas                *)
(*                      "html2pdf"     awaiting html2pdf()...outputPdf     *)
(*                      "createTimer"  awaiting the timer of               *)
(*                                     createPDFFromCanvas                 *)
(*                      "imgLoad"      awaiting img.onload / img.onerror   *)
(*                      "pageTimer"    awaiting the 10 ms timer            *)
(*                      "settled"      its promise has just resolved: the  *)
(*                                     caller's continuation is next       *)
(*                      "done"         the caller has the result, the      *)
(*                                     locals of the call are gone         *)
(*   options[r], originalStyles[r], canvas[r], pdf[r]                      *)
(*                    the locals of call r                                 *)
(*   paging[r]        imgHeight, pageContentHeightPx and totalPages of     *)
(*                    the addImageToPDF call of run r                      *)
(*   currentPage[r]   currentPage of that call                             *)
(*   result[r]        what the promise of call r resolved with             *)
(*   log[r]           the progress events delivered while call r was an    *)
(*                    unsettled run                                        *)
(*   delivered        the events the last step delivered to                *)
(*                    progressCallback, in order                           *)
(*   nCancels         the number of cancel() calls made                    *)
(*   lastOp           the last method called on the generator              *)
(*   style0           element.style before the first call                  *)
(*   containers       the temporary containers attached to document.body   *)
(*   cancelSeen[r]    cancel() was called while r was an unsettled run     *)
(*   threw[r]         a step of run r threw or rejected                    *)
(*   rasterized[r]    run r has called html2canvas or html2pdf             *)
(*   afterCancel[r]   call r was the first call after a cancel(), made     *)
(*                    when every earlier call had returned                 *)
(*   startFlag[r]     isCancelled as call r left it                        *)
(*   styleAtCall[r]   element.style when call r was made                   *)
(***************************************************************************)
VARIABLES generatorClass, isGenerating, isCancelled, style, pc, options,
          originalStyles, canvas, paging, currentPage, pdf, result, log,
          delivered, nCancels, lastOp, style0, containers, cancelSeen,
          threw, rasterized, afterCancel, startFlag, styleAtCall

(***************************************************************************)
(* State of FileProvider's PDF export (unnamed/part_002).                  *)
(*   exports[e]       call e of exportToPDF and the generator it creates:  *)
(*                      pc            "new", "imports" (awaiting the       *)
(*                                    imports of markdown-it and           *)
(*                                    dompurify), "import", "delay",       *)
(*                                    "html2pdf" (inside generatePDF, as   *)
(*                                    above), "done"                       *)
(*                      isGenerating, isCancelled   the generator's fields *)
(*                      container     its temporary container is attached  *)
(*                                    to document.body                     *)
(*                      downloaded    the download link was clicked        *)
(*                      result        what generatePDF resolved with       *)
(*   pdfGenerator     the export whose generator the state holds, 0 for    *)
(*                    null                                                 *)
(*   isExportingPDF, pdfProgress, toasts   the React state of those names; *)
(*                    a toast also records the export that added it        *)
(***************************************************************************)
VARIABLES exports, pdfGenerator, isExportingPDF, pdfProgress, toasts

uiVars == <<exports, pdfGenerator, isExportingPDF, pdfProgress, toasts>>

(***************************************************************************)
(* State of the download and validation utilities (downloadUtils.ts,       *)
(* pdfUtils.ts).                                                           *)
(*   call             the last call of a utility function: its name, its   *)
(*                    arguments and its result, <<>> while it awaits       *)
(*                    html2canvas or the delay between two downloads, and  *)
(*                    the results downloadMultipleFiles has pushed so far  *)
(*   clicked          the download names of the links that call clicked    *)
(*   objectUrls       the object URLs created and not revoked yet          *)
(***************************************************************************)
VARIABLES call, clicked, objectUrls

utilVars == <<call, clicked, objectUrls>>

(***************************************************************************)
(* State of FileProvider's file list and of the IndexedDB database         *)
(* (part_002, indexedDB.ts).                                               *)
(*   files, currentFileId, isLoading   the React state of those names,    *)
(*                    with 0 for a null currentFileId; a                   *)
(*                    Date is the record [time |-> its milliseconds]       *)
(*   autoSaveDue      currentFileId or the debounced content of the        *)
(*                    current file changed and the auto-save effect has    *)
(*                    not run yet                                          *)
(*   saving           the records the runs of saveFiles have still to put  *)
(*                    in the 'files' store, by id                          *)
(*   filesStore       the 'files' object store, by key                     *)
(*   prefsStore       the 'preferences' object store, by key               *)
(*   backupsStore     the 'backups' object store, by key                   *)
(*   now              Date.now()                                           *)
(*   op               the asynchronous operation of FileProvider that is   *)
(*                    awaiting the database, [fn |-> "none"] if none       *)
(*   settlement       how the last asynchronous operation settled          *)
(*   lastImport       the data of the last importData, <<>> once another   *)
(*                    operation has written to the database                *)
(***************************************************************************)
VARIABLES files, currentFileId, isLoading, autoSaveDue, saving, filesStore,
          prefsStore, backupsStore, now, op, settlement, lastImport

fileVars == <<files, currentFileId, isLoading, autoSaveDue, saving, filesStore,
              prefsStore, backupsStore, now, op, settlement, lastImport>>

\* the variables the steps of a generator's own runs leave alone
outside == <<uiVars, utilVars, fileVars>>

genVars == <<generatorClass, isGenerating, isCancelled, style, pc, options,
             originalStyles, canvas, paging, currentPage, pdf, result, log,
             delivered, nCancels, lastOp, style0, containers, cancelSeen,
             threw, rasterized, afterCancel, startFlag, styleAtCall>>

vars == <<genVars, outside>>

runLocals == <<options, originalStyles, canvas, paging, currentPage, pdf>>

history == <<lastOp, cancelSeen, rasterized, afterCancel, startFlag, styleAtCall>>

\* what no step of a run of the element variant changes
elsewhere == <<generatorClass, style0, containers, outside>>

\* call r is a run that has started (it passed the isGenerating guard) and
\* has not settled
Active(r) == pc[r] \notin {"new", "import", "settled", "done"}

\* call r was made and its caller does not have the result yet
InFlight(r) == pc[r] \notin {"new", "done"}

\* the number of calls made on the generator so far
OpsMade == nCancels + Cardinality({r \in Calls : pc[r] # "new"})

\* no promise has resolved whose continuation has not run yet
Quiet == \A q \in Calls : pc[q] # "settled"

\* call r was refused by the isGenerating guard
Rejected(r) ==
  pc[r] = "settled" /\ result[r].error = "PDF generation already in progress"

\* calls of exportToPDF made
MaxExports == 3

Exports == 1..MaxExports

\* FileProvider: the useState initial values
UiInit ==
  /\ exports = [e \in Exports |->
        [pc |-> "new", isGenerating |-> FALSE, isCancelled |-> FALSE,
         container |-> FALSE, downloaded |-> FALSE, result |-> <<>>]]
  /\ pdfGenerator = 0
  /\ isExportingPDF = FALSE
  /\ pdfProgress = "null"
  /\ toasts = <<>>

\* no utility has been called
UtilInit ==
  /\ call = [fn |-> "none", args |-> <<>>, result |-> <<>>, results |-> <<>>]
  /\ clicked = <<>>
  /\ objectUrls = 0

\* FileProvider is mounted over an empty database
FileInit ==
  /\ files = <<>>
  /\ currentFileId = 0
  /\ isLoading = TRUE
  /\ autoSaveDue = FALSE
  /\ saving = <<>>
  /\ filesStore = <<>>
  /\ prefsStore = <<>>
  /\ backupsStore = <<>>
  /\ now = 0
  /\ op = [fn |-> "none"]
  /\ settlement = [fn |-> "none"]
  /\ lastImport = <<>>

Init ==
  /\ UiInit
  /\ UtilInit
  /\ FileInit
  /\ generatorClass \in {"pdfGenerator", "pdfUtils"}
  /\ containers = 0
  /\ isGenerating = FALSE
  /\ isCancelled = FALSE
  /\ style \in ElementStyles
  /\ style0 = style
  /\ pc = [r \in Calls |-> "new"]
  /\ options = [r \in Calls |-> <<>>]
  /\ originalStyles = [r \in Calls |-> <<>>]
  /\ canvas = [r \in Calls |-> <<>>]
  /\ paging = [r \in Calls |-> <<>>]
  /\ currentPage = [r \in Calls |-> 0]
  /\ pdf = [r \in Calls |-> <<>>]
  /\ result = [r \in Calls |-> <<>>]
  /\ log = [r \in Calls |-> <<>>]
  /\ delivered = <<>>
  /\ nCancels = 0
  /\ lastOp = "none"
  /\ cancelSeen = [r \in Calls |-> FALSE]
  /\ threw = [r \in Calls |-> FALSE]
  /\ rasterized = [r \in Calls |-> FALSE]
  /\ afterCancel = [r \in Calls |-> FALSE]
  /\ startFlag = [r \in Calls |-> FALSE]
  /\ styleAtCall = [r \in Calls |-> <<>>]

(***************************************************************************)
(* updateProgress: run r delivers the events evs, in order.                *)
(***************************************************************************)
Emit(r, evs) ==
  /\ log' = [log EXCEPT ![r] = @ \o evs]
  /\ delivered' = evs

\* a step that delivers no event
NoEvent == log' = log /\ delivered' = <<>>

\* the promise of call r resolves with res; the outer finally has run
Settle(r, res, hasThrown) ==
  /\ pc' = [pc EXCEPT ![r] = "settled"]
  /\ result' = [result EXCEPT ![r] = res]
  /\ threw' = [threw EXCEPT ![r] = hasThrown]
  /\ isGenerating' = FALSE

\* the inner finally: restoreElementStyles(element, originalStyles)
Restore(r) == style' = RestoredStyles(style, originalStyles[r])

\* a step threw or rejected after run r delivered evs: the inner finally,
\* the catch and the outer finally
Fail(r, evs, msg) ==
  /\ Emit(r, evs)
  /\ Restore(r)
  /\ Settle(r, Failure(ErrorMessage(msg)), TRUE)

(***************************************************************************)
(* cancel()                                                                *)
(***************************************************************************)
Cancel ==
  /\ Quiet
  /\ OpsMade < MaxOps
  /\ nCancels' = nCancels + 1
  /\ isCancelled' = TRUE
  /\ isGenerating' = FALSE
  /\ LET ev == Event("cancelled", RInt(0))
     IN  /\ log' = [r \in Calls |-> IF Active(r) THEN Append(log[r], ev) ELSE log[r]]
         /\ delivered' = <<ev>>
  /\ cancelSeen' = [r \in Calls |-> cancelSeen[r] \/ Active(r)]
  /\ lastOp' = "cancel"
  /\ UNCHANGED <<generatorClass, outside, containers, style, pc, runLocals, result,
                 style0, threw, rasterized, afterCancel, startFlag,
                 styleAtCall>>

(***************************************************************************)
(* generatePDF(element, o), up to its first await.                         *)
(***************************************************************************)
\* the call being made is the first after a cancel() and every earlier call
\* has returned
AfterCancel == lastOp = "cancel" /\ \A q \in Calls : ~InFlight(q)

\* a start that leaves isCancelled as the last cancel() set it
StartFlags_KeepCancelled == isGenerating' = TRUE /\ UNCHANGED isCancelled

\* this.isGenerating = true; this.isCancelled = false
StartFlags == isGenerating' = TRUE /\ isCancelled' = FALSE

GeneratePDF(r, o) ==
  /\ generatorClass = "pdfGenerator"
  /\ Quiet
  /\ OpsMade < MaxOps
  /\ pc[r] = "new"
  /\ \A q \in Calls : q < r => pc[q] # "new"
  /\ options' = [options EXCEPT ![r] = o]
  /\ styleAtCall' = [styleAtCall EXCEPT ![r] = style]
  /\ lastOp' = "generatePDF"
  /\ afterCancel' = [afterCancel EXCEPT ![r] = AfterCancel]
  /\ IF isGenerating
     THEN /\ pc' = [pc EXCEPT ![r] = "settled"]
          /\ result' = [result EXCEPT ![r] = Failure("PDF generation already in progress")]
          /\ startFlag' = [startFlag EXCEPT ![r] = isCancelled]
          /\ NoEvent
          /\ UNCHANGED <<isGenerating, isCancelled>>
     ELSE /\ StartFlags
          /\ startFlag' = [startFlag EXCEPT ![r] = isCancelled']
          /\ Emit(r, <<Event("preparing", RInt(10))>>)
          /\ pc' = [pc EXCEPT ![r] = "delay"]
          /\ UNCHANGED result
  /\ UNCHANGED <<style, originalStyles, canvas, paging, currentPage, pdf,
                 nCancels, elsewhere, cancelSeen, threw, rasterized>>

(***************************************************************************)
(* The delay(50) of run r is over: checkpoint, 'rendering', the page       *)
(* dimensions, prepareElementForRendering and the call of                  *)
(* renderElementToCanvas.  Timers of equal delay fire in the order they    *)
(* were set, so the delay of an earlier call is over first.                *)
(***************************************************************************)
DelayDone(r) ==
  /\ generatorClass = "pdfGenerator"
  /\ Quiet
  /\ pc[r] = "delay"
  /\ \A q \in Calls : q < r => pc[q] # "delay"
  /\ IF isCancelled
     THEN /\ Settle(r, Failure("Cancelled"), FALSE)
          /\ NoEvent
          /\ UNCHANGED <<style, originalStyles>>
     ELSE /\ Emit(r, <<Event("rendering", RInt(30))>>)
          /\ originalStyles' = [originalStyles EXCEPT ![r] = OriginalStyles(style)]
          /\ style' = PreparedStyles(style, PageWidth(options[r]), Margin(options[r]))
          /\ pc' = [pc EXCEPT ![r] = "renderTimer"]
          /\ UNCHANGED <<isGenerating, result, threw>>
  /\ UNCHANGED <<isCancelled, options, canvas, paging, currentPage, pdf,
                 nCancels, elsewhere, history>>

(***************************************************************************)
(* renderElementToCanvas: the 50 ms timer fires and html2canvas is called. *)
(***************************************************************************)
RenderTimer(r) ==
  /\ Quiet
  /\ pc[r] = "renderTimer"
  /\ pc' = [pc EXCEPT ![r] = "html2canvas"]
  /\ rasterized' = [rasterized EXCEPT ![r] = TRUE]
  /\ NoEvent
  /\ UNCHANGED <<isGenerating, isCancelled, style, runLocals, result,
                 nCancels, lastOp, elsewhere, cancelSeen, threw, afterCancel,
                 startFlag, styleAtCall>>

(***************************************************************************)
(* html2canvas resolves with canvas c: checkpoint, 'generating' and the    *)
(* call of createPDFFromCanvas.                                            *)
(***************************************************************************)
Html2canvasResolve(r, c) ==
  /\ Quiet
  /\ pc[r] = "html2canvas"
  /\ canvas' = [canvas EXCEPT ![r] = c]
  /\ IF isCancelled
     THEN /\ Restore(r)
          /\ Settle(r, Failure("Cancelled"), FALSE)
          /\ NoEvent
     ELSE /\ Emit(r, <<Event("generating", RInt(60))>>)
          /\ pc' = [pc EXCEPT ![r] = "createTimer"]
          /\ UNCHANGED <<isGenerating, style, result, threw>>
  /\ UNCHANGED <<isCancelled, options, originalStyles, paging, currentPage,
                 pdf, nCancels, elsewhere, history>>

\* html2canvas rejects: the inner finally, the catch and the outer finally
Html2canvasReject(r, msg) ==
  /\ Quiet
  /\ pc[r] = "html2canvas"
  /\ Fail(r, <<>>, msg)
  /\ UNCHANGED <<isCancelled, runLocals, nCancels, elsewhere, history>>

(***************************************************************************)
(* How a run ends once createPDFFromCanvas has settled.                    *)
(***************************************************************************)
\* createPDFFromCanvas resolved: the last checkpoint, 'finalizing',
\* pdf.output('blob'), 'complete', the return and both finally blocks
Finish(r, fault) ==
  IF isCancelled
  THEN /\ Emit(r, <<>>)
       /\ Restore(r)
       /\ Settle(r, Failure("Cancelled"), FALSE)
  ELSE IF fault = "output"
  THEN Fail(r, <<Event("finalizing", RInt(90))>>, "output failed")
  ELSE /\ Emit(r, <<Event("finalizing", RInt(90)), Event("complete", RInt(100))>>)
       /\ Restore(r)
       /\ Settle(r, Success, FALSE)

\* the locals addImageToPDF computes on entry
Paging(imgHeight, pageContentHeight) ==
  [ imgHeight           |-> imgHeight,
    pageContentHeightPx |-> PageContentHeightPx(pageContentHeight),
    totalPages          |-> TotalPages(imgHeight, pageContentHeight) ]

\* a page added before every slice, the first included
AddPage_BeforeEverySlice(doc, page) == [doc EXCEPT !.pages = @ + 1]

\* if (currentPage > 0) { pdf.addPage(); }
AddPage(doc, page) == IF page > 0 THEN [doc EXCEPT !.pages = @ + 1] ELSE doc

\* addNextPage of run r, with locals pg and the document being doc, up to
\* img.src = imgData
AddNextPage(r, pg, doc, fault) ==
  LET page == currentPage[r]
      ev   == Event("generating", PageProgress(page, pg.totalPages))
      doc2 == AddPage(doc, page)
  IN  IF page >= pg.totalPages
      THEN /\ pdf' = [pdf EXCEPT ![r] = doc]
           /\ Finish(r, fault)
      ELSE /\ pdf' = [pdf EXCEPT ![r] = doc2]
           /\ IF fault = "getContext"
              THEN Fail(r, <<ev>>, "Could not get canvas context")
              ELSE /\ Emit(r, <<ev>>)
                   /\ pc' = [pc EXCEPT ![r] = "imgLoad"]
                   /\ UNCHANGED <<isGenerating, style, result, threw>>

(***************************************************************************)
(* createPDFFromCanvas: the 50 ms timer fires.                             *)
(***************************************************************************)
CreateTimer(r, fault) ==
  /\ Quiet
  /\ pc[r] = "createTimer"
  /\ LET doc   == [pages |-> 1, images |-> <<>>]
         whole == [page |-> 1, sourceY |-> RInt(0), height |-> RInt(canvas[r].height)]
         pg    == Paging(FinalHeight(canvas[r], options[r]),
                         RInt(ContentHeight(options[r])))
     IN  IF fault = "toDataURL"
         THEN /\ Fail(r, <<>>, "toDataURL failed")
              /\ UNCHANGED <<pdf, paging>>
         ELSE IF FitsOnePage(canvas[r], options[r])
         THEN /\ UNCHANGED paging
              /\ IF fault = "addImage"
                 THEN /\ Fail(r, <<>>, "addImage failed")
                      /\ pdf' = [pdf EXCEPT ![r] = doc]
                 ELSE /\ pdf' = [pdf EXCEPT ![r] = [doc EXCEPT !.images = <<whole>>]]
                      /\ Finish(r, fault)
         ELSE /\ paging' = [paging EXCEPT ![r] = pg]
              /\ AddNextPage(r, pg, doc, fault)
  /\ UNCHANGED <<isCancelled, options, originalStyles, canvas, currentPage,
                 nCancels, elsewhere, history>>

(***************************************************************************)
(* img.onload of the current slice: crop, add to the document, next page   *)
(* after 10 ms.                                                            *)
(***************************************************************************)
\* sourceY = currentPage * pageContentHeightPx
SliceSourceY(pg, page) == RMul(RInt(page), pg.pageContentHeightPx)

\* Math.min(pageContentHeightPx, imgHeight - sourceY)
SliceHeight(pg, page) ==
  RMin(pg.pageContentHeightPx, RSub(pg.imgHeight, SliceSourceY(pg, page)))

\* a loop that skips every second slice
NextPage_ByTwo(page) == page + 2

\* currentPage++
NextPage(page) == page + 1

ImgOnload(r, fault) ==
  /\ Quiet
  /\ pc[r] = "imgLoad"
  /\ IF fault = "drawImage"
     THEN /\ Fail(r, <<>>, "drawImage failed")
          /\ UNCHANGED <<pdf, currentPage>>
     ELSE /\ pdf' = [pdf EXCEPT ![r].images = Append(@,
                 [ page    |-> pdf[r].pages,
                   sourceY |-> SliceSourceY(paging[r], currentPage[r]),
                   height  |-> SliceHeight(paging[r], currentPage[r]) ])]
          /\ currentPage' = [currentPage EXCEPT ![r] = NextPage(@)]
          /\ pc' = [pc EXCEPT ![r] = "pageTimer"]
          /\ NoEvent
          /\ UNCHANGED <<isGenerating, style, result, threw>>
  /\ UNCHANGED <<isCancelled, options, originalStyles, canvas, paging,
                 nCancels, elsewhere, history>>

\* img.onerror
ImgOnerror(r) ==
  /\ Quiet
  /\ pc[r] = "imgLoad"
  /\ Fail(r, <<>>, "Failed to load image for page splitting")
  /\ UNCHANGED <<isCancelled, runLocals, nCancels, elsewhere, history>>

\* the 10 ms timer fires: addNextPage
PageTimer(r, fault) ==
  /\ Quiet
  /\ pc[r] = "pageTimer"
  /\ AddNextPage(r, paging[r], pdf[r], fault)
  /\ UNCHANGED <<isCancelled, options, originalStyles, canvas, paging,
                 currentPage, nCancels, elsewhere, history>>

(***************************************************************************)
(* The HTML-string variant (pdfUtils.ts).  cancel() is the same code.      *)
(***************************************************************************)
\* generatePDF(sanitizedContent, o) up to `await import("html2pdf.js")`
GenerateStringPDF(r, o) ==
  /\ generatorClass = "pdfUtils"
  /\ Quiet
  /\ OpsMade < MaxOps
  /\ pc[r] = "new"
  /\ \A q \in Calls : q < r => pc[q] # "new"
  /\ pc' = [pc EXCEPT ![r] = "import"]
  /\ options' = [options EXCEPT ![r] = o]
  /\ styleAtCall' = [styleAtCall EXCEPT ![r] = style]
  /\ lastOp' = "generatePDF"
  /\ afterCancel' = [afterCancel EXCEPT ![r] = AfterCancel]
  /\ NoEvent
  /\ UNCHANGED <<isGenerating, isCancelled, style, originalStyles, canvas,
                 paging, currentPage, pdf, result, nCancels, elsewhere,
                 cancelSeen, threw, rasterized, startFlag>>

\* the import resolved (the imports of one module resolve in the order they
\* were requested): the isGenerating guard, the flags, 'preparing' and
\* delay(50)
ImportDone(r) ==
  /\ Quiet
  /\ pc[r] = "import"
  /\ \A q \in Calls : q < r => pc[q] # "import"
  /\ IF isGenerating
     THEN /\ pc' = [pc EXCEPT ![r] = "settled"]
          /\ result' = [result EXCEPT ![r] = Failure("PDF generation already in progress")]
          /\ startFlag' = [startFlag EXCEPT ![r] = isCancelled]
          /\ NoEvent
          /\ UNCHANGED <<isGenerating, isCancelled>>
     ELSE /\ StartFlags
          /\ startFlag' = [startFlag EXCEPT ![r] = isCancelled']
          /\ Emit(r, <<Event("preparing", RInt(10))>>)
          /\ pc' = [pc EXCEPT ![r] = "delay"]
          /\ UNCHANGED result
  /\ UNCHANGED <<style, runLocals, nCancels, elsewhere, lastOp, cancelSeen,
                 threw, rasterized, afterCancel, styleAtCall>>

\* the delay(50) is over: checkpoint, 'rendering', createTempContainer, the
\* second checkpoint (nothing ran since the first), 'generating' and the
\* call of html2pdf
StringDelayDone(r) ==
  /\ generatorClass = "pdfUtils"
  /\ Quiet
  /\ pc[r] = "delay"
  /\ \A q \in Calls : q < r => pc[q] # "delay"
  /\ IF isCancelled
     THEN /\ Settle(r, Failure("Cancelled"), FALSE)
          /\ NoEvent
          /\ UNCHANGED <<containers, rasterized>>
     ELSE /\ Emit(r, <<Event("rendering", RInt(30)), Event("generating", RInt(60))>>)
          /\ containers' = containers + 1
          /\ rasterized' = [rasterized EXCEPT ![r] = TRUE]
          /\ pc' = [pc EXCEPT ![r] = "html2pdf"]
          /\ UNCHANGED <<isGenerating, result, threw>>
  /\ UNCHANGED <<generatorClass, outside, isCancelled, style, runLocals, nCancels,
                 style0, lastOp, cancelSeen, afterCancel, startFlag,
                 styleAtCall>>

\* html2pdf resolved with the blob: checkpoint, 'finalizing', removeChild,
\* 'complete', the return and the finally
Html2pdfResolve(r) ==
  /\ Quiet
  /\ pc[r] = "html2pdf"
  /\ IF isCancelled
     THEN /\ Settle(r, Failure("Cancelled"), FALSE)
          /\ NoEvent
          /\ UNCHANGED containers
     ELSE /\ Emit(r, <<Event("finalizing", RInt(90)), Event("complete", RInt(100))>>)
          /\ containers' = containers - 1
          /\ Settle(r, Success, FALSE)
  /\ UNCHANGED <<generatorClass, outside, isCancelled, style, runLocals, nCancels,
                 style0, history>>

\* html2pdf rejected: the catch and the finally
Html2pdfReject(r, msg) ==
  /\ Quiet
  /\ pc[r] = "html2pdf"
  /\ Settle(r, Failure(ErrorMessage(msg)), TRUE)
  /\ NoEvent
  /\ UNCHANGED <<isCancelled, style, runLocals, nCancels, elsewhere, history>>

(***************************************************************************)
(* The caller's continuation of `await generatePDF(...)` runs right after  *)
(* the promise resolved (no task comes between); the locals of the call    *)
(* are dropped.                                                            *)
(***************************************************************************)
Return(r) ==
  /\ pc[r] = "settled"
  /\ pc' = [pc EXCEPT ![r] = "done"]
  /\ options' = [options EXCEPT ![r] = <<>>]
  /\ originalStyles' = [originalStyles EXCEPT ![r] = <<>>]
  /\ canvas' = [canvas EXCEPT ![r] = <<>>]
  /\ paging' = [paging EXCEPT ![r] = <<>>]
  /\ currentPage' = [currentPage EXCEPT ![r] = 0]
  /\ pdf' = [pdf EXCEPT ![r] = <<>>]
  /\ result' = [result EXCEPT ![r] = <<>>]
  /\ log' = [log EXCEPT ![r] = <<>>]
  /\ delivered' = <<>>
  /\ cancelSeen' = [cancelSeen EXCEPT ![r] = FALSE]
  /\ threw' = [threw EXCEPT ![r] = FALSE]
  /\ rasterized' = [rasterized EXCEPT ![r] = FALSE]
  /\ afterCancel' = [afterCancel EXCEPT ![r] = FALSE]
  /\ startFlag' = [startFlag EXCEPT ![r] = FALSE]
  /\ styleAtCall' = [styleAtCall EXCEPT ![r] = <<>>]
  /\ UNCHANGED <<isGenerating, isCancelled, style, nCancels, lastOp, elsewhere>>

Next ==
  \/ Cancel
  \/ \E r \in Calls, o \in CallOptions : GeneratePDF(r, o)
  \/ \E r \in Calls : DelayDone(r)
  \/ \E r \in Calls : RenderTimer(r)
  \/ \E r \in Calls, c \in Canvases : Html2canvasResolve(r, c)
  \/ \E r \in Calls, msg \in RenderErrors : Html2canvasReject(r, msg)
  \/ \E r \in Calls, fault \in {"none", "toDataURL", "addImage", "getContext", "output"} :
        CreateTimer(r, fault)
  \/ \E r \in Calls, fault \in {"none", "drawImage"} : ImgOnload(r, fault)
  \/ \E r \in Calls : ImgOnerror(r)
  \/ \E r \in Calls, fault \in {"none", "getContext", "output"} : PageTimer(r, fault)
  \/ \E r \in Calls, o \in CallOptions : GenerateStringPDF(r, o)
  \/ \E r \in Calls : ImportDone(r)
  \/ \E r \in Calls : StringDelayDone(r)
  \/ \E r \in Calls : Html2pdfResolve(r)
  \/ \E r \in Calls, msg \in RenderErrors : Html2pdfReject(r, msg)
  \/ \E r \in Calls : Return(r)

Spec == Init /\ [][Next]_vars

(***************************************************************************)
(* Properties.                                                             *)
(***************************************************************************)
\* the style properties prepareElementForRendering assigns
Overridden ==
  { "width", "height", "overflow", "position", "backgroundColor", "color",
    "fontFamily", "fontSize", "lineHeight", "padding", "boxSizing" }

SameOverridden(a, b) == \A p \in Overridden : a[p] = b[p]

Stages(lg) == [i \in DOMAIN lg |-> lg[i].stage]

HasStage(lg, stage) == \E i \in DOMAIN lg : lg[i].stage = stage

\* C1: at most one run of the generator is started and not yet settled at
\* any time (a call made while a run is unsettled is refused, not started).
C1_AtMostOneActiveRun == Cardinality({r \in Calls : Active(r)}) <= 1

\* call r has reached the isGenerating guard
AtGuard(r) == pc[r] \notin {"new", "import"}

\* C2: a generatePDF call made while a run is active resolves with
\* 'PDF generation already in progress', delivers no progress event and
\* leaves isGenerating, isCancelled and the events of the active run as
\* they were.
C2_CallWhileActiveIsRefused ==
  [][\A r \in Calls :
        (~AtGuard(r) /\ AtGuard(r)' /\ \E q \in Calls : Active(q))
        => /\ pc'[r] = "settled"
           /\ result'[r] = Failure("PDF generation already in progress")
           /\ delivered' = <<>>
           /\ UNCHANGED <<isGenerating, isCancelled, log>>]_vars

\* C3: a run that met a cancel() before it settled settles with reason
\* 'Cancelled', never with success, and delivers no 'complete' event
\* (stated for the runs none of whose steps threw).
C3_CancelledRunSettlesCancelled ==
  \A r \in Calls :
    (pc[r] = "settled" /\ cancelSeen[r] /\ ~threw[r])
    => /\ result[r] = Failure("Cancelled")
       /\ ~HasStage(log[r], "complete")

\* C4: when a run has settled and no run is in flight, every style property
\* the export overrides has the value it had before the export began (the
\* value at the call of the run, which is the value before any export).
C4_StylesRestoredAfterSettle ==
  \A r \in Calls :
    (pc[r] = "settled" /\ ~Rejected(r) /\ \A q \in Calls : ~Active(q))
    => \/ SameOverridden(style, styleAtCall[r])
       \/ SameOverridden(style, style0)

\* C5: once a run has settled, no progress event is delivered unless a run
\* is unsettled at that step (or settles in it).
C5_NoEventAfterSettlement ==
  (delivered # <<>> /\ \E r \in Calls : pc[r] = "done")
  => \E r \in Calls : Active(r) \/ pc[r] = "settled"

\* C6: the percents of the events delivered during one run, those of
\* cancel() included, never decrease.
C6_PercentNonDecreasing ==
  \A r \in Calls : \A i, j \in DOMAIN log[r] :
    i < j => RLeq(log[r][i].progress, log[r][j].progress)

\* C7: an event carries percent 100 exactly when its stage is 'complete',
\* and a run that resolved with success delivered exactly one such event,
\* as its last event and the last event the callback got before the
\* promise resolved.
C7_CompleteIffHundred ==
  /\ \A i \in DOMAIN delivered :
       REq(delivered[i].progress, RInt(100)) <=> delivered[i].stage = "complete"
  /\ \A r \in Calls : \A i \in DOMAIN log[r] :
       REq(log[r][i].progress, RInt(100)) <=> log[r][i].stage = "complete"
  /\ \A r \in Calls :
       (pc[r] = "settled" /\ result[r].success)
       => /\ log[r] # <<>>
          /\ log[r][Len(log[r])].stage = "complete"
          /\ Cardinality({i \in DOMAIN log[r] : log[r][i].stage = "complete"}) = 1
          /\ delivered # <<>>
          /\ delivered[Len(delivered)] = log[r][Len(log[r])]

\* a run that took the multi-page path over two slices resolved with success
C7_Witness ==
  \E r \in Calls :
    /\ pc[r] = "settled"
    /\ result[r].success
    /\ paging[r] # <<>>
    /\ Len(pdf[r].images) = 2
    /\ Len(log[r]) > 5

\* C8: a call whose options validatePDFOptions refuses resolves at once
\* with the validation error, delivers no event, never calls html2canvas
\* and leaves the element alone.
C8_InvalidOptionsFailFast ==
  \A r \in Calls :
    (AtGuard(r) /\ pc[r] # "done" /\ ~validatePDFOptions(options[r]).ok)
    => /\ pc[r] = "settled"
       /\ result[r] = Failure(validatePDFOptions(options[r]).error)
       /\ log[r] = <<>>
       /\ ~rasterized[r]
       /\ originalStyles[r] = <<>>

\* C9: the first generatePDF call after a cancel(), made when every run
\* that cancel() met has settled, is accepted and leaves isCancelled
\* cleared; if no cancel() is called during the run and no step of it
\* fails, it resolves with success, 'complete' being its last event.
C9_FreshRunAfterCancel ==
  \A r \in Calls :
    afterCancel[r]
    => /\ ~Rejected(r)
       /\ startFlag[r] = FALSE
       /\ (pc[r] = "settled" /\ ~cancelSeen[r] /\ ~threw[r])
          => /\ result[r] = Success
             /\ log[r] # <<>>
             /\ log[r][Len(log[r])].stage = "complete"

\* a run started after cancel() resolved with success
C9_Witness ==
  \E r \in Calls :
    afterCancel[r] /\ pc[r] = "settled" /\ result[r].success /\ nCancels > 0

RECURSIVE SumHeights(_)
SumHeights(images) ==
  IF images = <<>> THEN RInt(0)
  ELSE RAdd(images[1].height, SumHeights(Tail(images)))

\* C10: the slices of a run with valid options that went through the
\* multi-page path cover the canvas html2canvas returned: with H the canvas height and P the page
\* content height in pixels there are ceil(H/P) of them, the first starts
\* at 0, each starts where the one before ends, each is min(P, H - start)
\* high, and their heights add up to H.
C10_SlicesCoverCanvas ==
  \A r \in Calls :
    (pc[r] = "settled" /\ result[r].success /\ paging[r] # <<>>
       /\ validatePDFOptions(options[r]).ok)
    => LET H  == RInt(canvas[r].height)
           P  == paging[r].pageContentHeightPx
           sl == pdf[r].images
       IN  /\ Len(sl) = RCeil(RDiv(H, P))
           /\ REq(sl[1].sourceY, RInt(0))
           /\ \A i \in 1..(Len(sl) - 1) :
                REq(sl[i + 1].sourceY, RAdd(sl[i].sourceY, sl[i].height))
           /\ \A i \in DOMAIN sl :
                /\ RLeq(sl[i].sourceY, H)
                /\ REq(sl[i].height, RMin(P, RSub(H, sl[i].sourceY)))
           /\ REq(SumHeights(sl), H)

\* the messages a failing step of a run can leave in the result
FailureMessages ==
  { ErrorMessage(msg) : msg \in RenderErrors } \cup
  { "toDataURL failed", "addImage failed", "Could not get canvas context",
    "drawImage failed", "Failed to load image for page splitting",
    "output failed" }

\* C11: when a step of a run fails (the rasterizer, a crop or draw step, an
\* image load, serialization), the promise resolves with success false and
\* the message of the error, the overridden styles of the element have the
\* values they had when the call was made, and isGenerating is false, so
\* that the next generatePDF call passes the guard.
C11_FailureResolvesAndRestores ==
  \A r \in Calls :
    (pc[r] = "settled" /\ threw[r])
    => /\ ~result[r].success
       /\ result[r].error \in FailureMessages
       /\ ~isGenerating
       /\ SameOverridden(style, styleAtCall[r])

(***************************************************************************)
(* FileProvider.exportToPDF (unnamed/part_002), with the generator of the  *)
(* HTML-string variant each call creates.  The files hold one file, "f1".  *)
(***************************************************************************)
FileIds == {"f1"}

\* the ids exportToPDF is called with
ExportIds == {"f1", "missing"}

\* the messages an import or html2pdf may reject with
ExportErrors == {"Loading chunk failed", ""}

\* the progress callback of the generator of export e: setPdfProgress
SetPdfProgress(ev) == pdfProgress' = ev

\* addToast, called by export e
AddToast(e, type, title, description) ==
  toasts' = Append(toasts, [type |-> type, title |-> title,
                            description |-> description, export |-> e])

\* the finally of exportToPDF
ExportFinally ==
  /\ isExportingPDF' = FALSE
  /\ pdfProgress' = "null"
  /\ pdfGenerator' = 0

\* generatePDF of export e resolved with res (its finally has run):
\* exportToPDF from `if (!result.success)` to its end
ExportSettled(e, res, attached) ==
  /\ exports' = [exports EXCEPT ![e] =
        [@ EXCEPT !.pc = "done", !.isGenerating = FALSE, !.result = res,
                  !.container = attached, !.downloaded = res.success]]
  /\ IF ~res.success
     THEN AddToast(e, "error", "PDF Export Failed",
                   IF res.error = "" THEN "Failed to generate PDF. Please try again."
                   ELSE res.error)
     ELSE AddToast(e, "success", "PDF Exported Successfully", "downloaded")
  /\ ExportFinally

\* exportToPDF(id) up to the first import
ExportToPDF(e, id) ==
  /\ exports[e].pc = "new"
  /\ \A d \in Exports : d < e => exports[d].pc # "new"
  /\ IF id \notin FileIds
     THEN /\ exports' = [exports EXCEPT ![e].pc = "done"]
          /\ UNCHANGED <<pdfGenerator, isExportingPDF, pdfProgress, toasts>>
     ELSE /\ exports' = [d \in Exports |->
               IF d = e THEN [exports[d] EXCEPT !.pc = "imports"]
               ELSE IF d = pdfGenerator
               THEN [exports[d] EXCEPT !.isCancelled = TRUE, !.isGenerating = FALSE]
               ELSE exports[d]]
          /\ isExportingPDF' = TRUE
          /\ SetPdfProgress(Event("preparing", RInt(0)))
          /\ UNCHANGED <<pdfGenerator, toasts>>
  /\ UNCHANGED <<genVars, utilVars, fileVars>>

\* the imports of markdown-it and dompurify resolved: the content is
\* rendered and sanitized, the generator created and generatePDF called,
\* which awaits its import of html2pdf.js
ImportsDone(e) ==
  /\ exports[e].pc = "imports"
  /\ \A d \in Exports : d < e => exports[d].pc # "imports"
  /\ exports' = [exports EXCEPT ![e].pc = "import"]
  /\ pdfGenerator' = e
  /\ UNCHANGED <<isExportingPDF, pdfProgress, toasts, genVars, utilVars, fileVars>>

\* an import rejected: the catch and the finally of exportToPDF
ImportsFailed(e, msg) ==
  /\ exports[e].pc = "imports"
  /\ \A d \in Exports : d < e => exports[d].pc # "imports"
  /\ exports' = [exports EXCEPT ![e].pc = "done"]
  /\ AddToast(e, "error", "PDF Export Failed", msg)
  /\ ExportFinally
  /\ UNCHANGED <<genVars, utilVars, fileVars>>

\* generatePDF of export e after its import: the guard, the flags,
\* 'preparing' and delay(50)
ExportImportDone(e) ==
  /\ exports[e].pc = "import"
  /\ \A d \in Exports : d < e => exports[d].pc # "import"
  /\ IF exports[e].isGenerating
     THEN ExportSettled(e, Failure("PDF generation already in progress"), FALSE)
     ELSE /\ exports' = [exports EXCEPT ![e] =
               [@ EXCEPT !.pc = "delay", !.isGenerating = TRUE, !.isCancelled = FALSE]]
          /\ SetPdfProgress(Event("preparing", RInt(10)))
          /\ UNCHANGED <<pdfGenerator, isExportingPDF, toasts>>
  /\ UNCHANGED <<genVars, utilVars, fileVars>>

\* the delay(50) is over: checkpoint, 'rendering', createTempContainer,
\* checkpoint, 'generating' and the call of html2pdf
ExportDelayDone(e) ==
  /\ exports[e].pc = "delay"
  /\ \A d \in Exports : d < e => exports[d].pc # "delay"
  /\ IF exports[e].isCancelled
     THEN ExportSettled(e, Failure("Cancelled"), FALSE)
     ELSE /\ exports' = [exports EXCEPT ![e] =
               [@ EXCEPT !.pc = "html2pdf", !.container = TRUE]]
          /\ SetPdfProgress(Event("generating", RInt(60)))
          /\ UNCHANGED <<pdfGenerator, isExportingPDF, toasts>>
  /\ UNCHANGED <<genVars, utilVars, fileVars>>

\* html2pdf resolved: checkpoint, 'finalizing', removeChild, 'complete'
ExportHtml2pdfResolve(e) ==
  /\ exports[e].pc = "html2pdf"
  /\ IF exports[e].isCancelled
     THEN ExportSettled(e, Failure("Cancelled"), TRUE)
     ELSE ExportSettled(e, Success, FALSE)
  /\ UNCHANGED <<genVars, utilVars, fileVars>>

\* html2pdf rejected: the catch of generatePDF
ExportHtml2pdfReject(e, msg) ==
  /\ exports[e].pc = "html2pdf"
  /\ ExportSettled(e, Failure(ErrorMessage(msg)), TRUE)
  /\ UNCHANGED <<genVars, utilVars, fileVars>>

ExportNext ==
  \/ \E e \in Exports, id \in ExportIds : ExportToPDF(e, id)
  \/ \E e \in Exports : ImportsDone(e)
  \/ \E e \in Exports, msg \in ExportErrors : ImportsFailed(e, msg)
  \/ \E e \in Exports : ExportImportDone(e)
  \/ \E e \in Exports : ExportDelayDone(e)
  \/ \E e \in Exports : ExportHtml2pdfResolve(e)
  \/ \E e \in Exports, msg \in ExportErrors : ExportHtml2pdfReject(e, msg)

\* the generator model stands still
ExportInit ==
  /\ Init
  /\ generatorClass = "pdfUtils"
  /\ style = [p \in StyleProps |-> ""]

ExportSpec == ExportInit /\ [][ExportNext]_vars

\* C12: an error toast is added only for an export whose run ended with a
\* failure other than 'Cancelled' (or whose imports failed); an export that
\* ended with 'Cancelled' adds no error toast.
C12_CancelledAddsNoErrorToast ==
  \A i \in DOMAIN toasts :
    toasts[i].type = "error"
    => LET res == exports[toasts[i].export].result
       IN  res = <<>> \/ (~res.success /\ res.error # "Cancelled")

(***************************************************************************)
(* The download and validation utilities (downloadUtils.ts, pdfUtils.ts).  *)
(* A string is the sequence of its characters.  A JavaScript value is a    *)
(* record [t |-> its type, v |-> its characters when it is a string].      *)
(***************************************************************************)
JsString(s) == [t |-> "string", v |-> s]

JsNull == [t |-> "null", v |-> <<>>]

\* a value that is truthy and no string: a number, a Blob, an element
JsObject == [t |-> "object", v |-> <<>>]

\* !x is false
Truthy(x) == x.t # "null" /\ (x.t = "string" => x.v # <<>>)

\* !filename || typeof filename !== "string" is false
IsNonEmptyString(x) == Truthy(x) /\ x.t = "string"

\* s.endsWith(suffix)
EndsWith(s, suffix) ==
  /\ Len(s) >= Len(suffix)
  /\ SubSeq(s, Len(s) - Len(suffix) + 1, Len(s)) = suffix

MdExt == <<".", "m", "d">>

PdfExt == <<".", "p", "d", "f">>

\* a rule that appends '.md' whatever the name ends in
fileName_Always(filename) == filename \o MdExt

\* downloadFile: filename.endsWith(".md") ? filename : `${filename}.md`
fileName(filename) ==
  IF EndsWith(filename, MdExt) THEN filename ELSE filename \o MdExt

\* downloadPDF: filename.endsWith('.pdf') ? filename : `${filename}.pdf`
pdfFilename(filename) ==
  IF EndsWith(filename, PdfExt) THEN filename ELSE filename \o PdfExt

\* what a utility resolves with or returns
Ok == [success |-> TRUE, error |-> ""]

Fails(msg) == [success |-> FALSE, error |-> msg]

\* the characters of /[<>:"/\\|?*]/
InvalidChars == {"<", ">", ":", "\"", "/", "\\", "|", "?", "*"}

\* the characters of \s the model uses
Whitespace == {" ", "\t"}

\* .replace(/[<>:"/\\|?*]/g, "_")
ReplaceInvalid(s) ==
  [i \in 1..Len(s) |-> IF s[i] \in InvalidChars THEN "_" ELSE s[i]]

RECURSIVE SkipWhitespace(_)
SkipWhitespace(s) ==
  IF s # <<>> /\ s[1] \in Whitespace THEN SkipWhitespace(Tail(s)) ELSE s

\* .replace(/\s+/g, "_"): the first character of a whitespace run becomes
\* "_", the rest of the run goes
ReplaceWhitespace(s) ==
  LET marked == [i \in 1..Len(s) |->
                   IF s[i] \notin Whitespace THEN s[i]
                   ELSE IF i > 1 /\ s[i - 1] \in Whitespace THEN "gone"
                   ELSE "_"]
      Kept(c) == c # "gone"
  IN  SelectSeq(marked, Kept)

RECURSIVE TrimEnd(_)
TrimEnd(s) ==
  IF s # <<>> /\ s[Len(s)] \in Whitespace
  THEN TrimEnd(SubSeq(s, 1, Len(s) - 1)) ELSE s

\* .trim()
Trim(s) == TrimEnd(SkipWhitespace(s))

\* a sanitizer that leaves the invalid characters in place
Sanitized_KeepInvalid(filename) == Trim(ReplaceWhitespace(filename))

\* validateFilename: sanitized
Sanitized(filename) == Trim(ReplaceWhitespace(ReplaceInvalid(filename)))

\* validateFilename(filename): [ok, value] when it returns, [ok, error]
\* when it throws
validateFilename(filename) ==
  IF ~IsNonEmptyString(filename)
  THEN [ok |-> FALSE, value |-> <<>>, error |-> "Filename must be a non-empty string"]
  ELSE IF Len(Sanitized(filename.v)) = 0
  THEN [ok |-> FALSE, value |-> <<>>, error |-> "Filename cannot be empty after sanitization"]
  ELSE IF Len(Sanitized(filename.v)) > 255
  THEN [ok |-> FALSE, value |-> <<>>, error |-> "Filename too long (max 255 characters)"]
  ELSE [ok |-> TRUE, value |-> Sanitized(filename.v), error |-> ""]

\* .replace(/\.md$/, "")
BaseWithoutExt(sanitized) ==
  IF EndsWith(sanitized, MdExt)
  THEN SubSeq(sanitized, 1, Len(sanitized) - 3) ELSE sanitized

\* new Date().toISOString().replace(/[:.]/g, "-").slice(0, -5)
Timestamp(iso) ==
  LET dashed == [i \in 1..Len(iso) |-> IF iso[i] \in {":", "."} THEN "-" ELSE iso[i]]
  IN  SubSeq(dashed, 1, Len(dashed) - 5)

Includes(existingNames, name) ==
  \E i \in DOMAIN existingNames : existingNames[i] = name

\* generateSafeFilename(baseName, existingNames) at the time iso
generateSafeFilename(baseName, existingNames, iso) ==
  LET v == validateFilename(baseName)
  IN  IF ~v.ok THEN v
      ELSE IF ~Includes(existingNames, v.value) THEN v
      ELSE [v EXCEPT !.value =
              BaseWithoutExt(v.value) \o <<"_">> \o Timestamp(iso) \o MdExt]

\* the error the body of downloadFile throws before it creates the link,
\* "" when none
DownloadFileError(filename, content, supported) ==
  IF ~IsNonEmptyString(filename) THEN "Invalid filename provided"
  ELSE IF content.t # "string" THEN "Content must be a string"
  ELSE IF ~supported THEN "Browser does not support file downloads"
  ELSE ""

\* a downloadPDF that does not look for the download attribute
DownloadPDFError_NoSupportCheck(pdfBlob, filename, supported) ==
  IF ~Truthy(pdfBlob) THEN "PDF blob is required for download"
  ELSE IF ~IsNonEmptyString(filename) THEN "Valid filename is required"
  ELSE ""

\* the error the body of downloadPDF throws before it creates the link
DownloadPDFError(pdfBlob, filename, supported) ==
  IF ~Truthy(pdfBlob) THEN "PDF blob is required for download"
  ELSE IF ~IsNonEmptyString(filename) THEN "Valid filename is required"
  ELSE IF ~supported THEN "Browser does not support file downloads"
  ELSE ""

\* the error generatePDFFromElement throws before it calls html2canvas
GeneratePDFFromElementError(element, filename) ==
  IF ~Truthy(element) THEN "Element is required for PDF generation"
  ELSE IF ~IsNonEmptyString(filename) THEN "Valid filename is required"
  ELSE ""

\* the catch of the three functions: { success: false, error: message }
Caught(msg) == IF msg = "" THEN Ok ELSE Fails(msg)

(***************************************************************************)
(* Inputs of the utility calls.                                            *)
(***************************************************************************)
\* the longest name of the enumerated names
MaxNameLen == 3

\* the links a call may have left un-revoked when the next one is made
MaxObjectUrls == 1

NameChars == {"a", ".", "m", "d", " ", "<"}

RECURSIVE NamesUpTo(_)
NamesUpTo(n) ==
  IF n = 0 THEN {<<>>}
  ELSE LET shorter == NamesUpTo(n - 1)
       IN  shorter \cup { Append(w, c) : w \in {x \in shorter : Len(x) = n - 1}, c \in NameChars }

LongName == [i \in 1..256 |-> "a"]

Names ==
  NamesUpTo(MaxNameLen) \cup
  { <<"a", ".", "m", "d">>, <<"a", ".", "p", "d", "f">>,
    <<"a", " ", "b", ".", "m", "d">>, <<"a", " ", "\t", "b">>,
    <<"t", "<", ">", ":", "\"", "/", "\\", "|", "?", "*", ".", "m", "d">>,
    <<"a", ".", "m", "d", ".", "p", "d", "f">>, LongName }

\* the values passed as a filename
Filenames == { JsString(n) : n \in Names } \cup {JsNull, JsObject}

ExistingNameLists ==
  { <<>>, << <<"a", ".", "m", "d">> >>, << <<"a">> >>,
    << <<"b", ".", "m", "d">>, <<"a", "_">> >> }

IsoTimes ==
  { <<"2", "0", "2", "4", "-", "0", "1", "-", "3", "1", "T", "2", "3", ":",
      "5", "9", ":", "0", "7", ".", "1", "2", "3", "Z">> }

FieldOptions(f, values) == {<<>>} \cup { f :> v : v \in values }

\* the records passed to validatePDFOptions
PartialOptions ==
  { a @@ b @@ c @@ d @@ e @@ t :
      a \in FieldOptions("filename", {"", "doc"}),
      b \in FieldOptions("quality", {NaN, Num(5), Num(10), Num(100), Num(150)}),
      c \in FieldOptions("scale", {NaN, Num(4), Num(5), Num(50), Num(51)}),
      d \in FieldOptions("pageSize", {"letter", "legal", "a3"}),
      e \in FieldOptions("orientation", {"landscape", "diagonal"}),
      t \in FieldOptions("title", {"T"}) }

\* the files of one downloadMultipleFiles call
MaxFiles == 2

\* the download options of one file: a name with or without '.md', a
\* missing name, content that is no string
FileOptions ==
  { [filename |-> JsString(<<"a">>), content |-> JsString(<<"#">>)],
    [filename |-> JsString(<<"b", ".", "m", "d">>), content |-> JsString(<<"#">>)],
    [filename |-> JsNull, content |-> JsString(<<"#">>)],
    [filename |-> JsString(<<"c">>), content |-> JsNull] }

\* the arrays passed to downloadMultipleFiles
FileLists == UNION { [1..n -> FileOptions] : n \in 0..MaxFiles }

\* how html2canvas settles: with a canvas, or rejecting with an Error or
\* with a value that is no Error
Html2canvasOutcomes == {"canvas", "Unable to render element", ""}

(***************************************************************************)
(* The utility calls.                                                      *)
(***************************************************************************)
\* no call is under way: the caller of the last one has its result
Idle == call.fn = "none"

Returned(fn, args, res) ==
  call' = [fn |-> fn, args |-> args, result |-> res, results |-> <<>>]

\* the link is created, clicked and removed; its URL is revoked 100 ms later
ClickLink(name) == clicked' = <<name>> /\ objectUrls' = objectUrls + 1

NoLink == clicked' = <<>> /\ UNCHANGED objectUrls

DownloadFile(filename, content, supported) ==
  /\ Idle
  /\ objectUrls < MaxObjectUrls
  /\ LET err == DownloadFileError(filename, content, supported)
     IN  /\ Returned("downloadFile",
                     [filename |-> filename, content |-> content, supported |-> supported],
                     Caught(err))
         /\ IF err = "" THEN ClickLink(fileName(filename.v)) ELSE NoLink
  /\ UNCHANGED <<genVars, uiVars, fileVars>>

DownloadPDF(pdfBlob, filename, supported) ==
  /\ Idle
  /\ objectUrls < MaxObjectUrls
  /\ LET err == DownloadPDFError(pdfBlob, filename, supported)
     IN  /\ Returned("downloadPDF",
                     [pdfBlob |-> pdfBlob, filename |-> filename, supported |-> supported],
                     Caught(err))
         /\ IF err = "" THEN ClickLink(pdfFilename(filename.v)) ELSE NoLink
  /\ UNCHANGED <<genVars, uiVars, fileVars>>

\* the timer of a download fires: URL.revokeObjectURL(url)
RevokeObjectURL ==
  /\ objectUrls > 0
  /\ objectUrls' = objectUrls - 1
  /\ UNCHANGED <<call, clicked, genVars, uiVars, fileVars>>

ValidateFilename(filename) ==
  /\ Idle
  /\ Returned("validateFilename", [filename |-> filename], validateFilename(filename))
  /\ NoLink
  /\ UNCHANGED <<genVars, uiVars, fileVars>>

GenerateSafeFilename(baseName, existingNames, iso) ==
  /\ Idle
  /\ Returned("generateSafeFilename",
              [baseName |-> baseName, existingNames |-> existingNames, iso |-> iso],
              generateSafeFilename(baseName, existingNames, iso))
  /\ NoLink
  /\ UNCHANGED <<genVars, uiVars, fileVars>>

ValidatePDFOptions(o) ==
  /\ Idle
  /\ Returned("validatePDFOptions", [options |-> o], validatePDFOptions(o))
  /\ NoLink
  /\ UNCHANGED <<genVars, uiVars, fileVars>>

\* generatePDFFromElement up to `await html2canvas(...)`
GeneratePDFFromElement(element, filename) ==
  /\ Idle
  /\ LET err == GeneratePDFFromElementError(element, filename)
     IN  Returned("generatePDFFromElement",
                  [element |-> element, filename |-> filename],
                  IF err = "" THEN <<>> ELSE Fails(err))
  /\ NoLink
  /\ UNCHANGED <<genVars, uiVars, fileVars>>

\* html2canvas settled: the rest of generatePDFFromElement, or its catch
Html2canvasSettled(outcome) ==
  /\ call.fn = "generatePDFFromElement"
  /\ call.result = <<>>
  /\ call' = [call EXCEPT !.result =
        IF outcome = "canvas" THEN Ok
        ELSE IF outcome = "" THEN Fails("Unknown PDF generation error")
        ELSE Fails(outcome)]
  /\ UNCHANGED <<clicked, objectUrls, genVars, uiVars, fileVars>>

\* a push that drops the results of failed downloads
Push_SuccessOnly(results, res) ==
  IF res.success THEN Append(results, res) ELSE results

\* results.push(result)
Push(results, res) == Append(results, res)

\* one iteration of the loop of downloadMultipleFiles, on files[i]: the
\* awaited downloadFile, results.push, and either the delay before the next
\* file or the return of the results
DownloadNext(list, i, supported) ==
  LET err     == DownloadFileError(list[i].filename, list[i].content, supported)
      results == Push(call.results, Caught(err))
  IN  /\ objectUrls < MaxObjectUrls
      /\ call' = [fn      |-> "downloadMultipleFiles",
                  args    |-> [files |-> list, supported |-> supported],
                  result  |-> IF i < Len(list) THEN <<>> ELSE [list |-> results],
                  results |-> results]
      /\ IF err = ""
         THEN /\ clicked' = Append(clicked, fileName(list[i].filename.v))
              /\ objectUrls' = objectUrls + 1
         ELSE UNCHANGED <<clicked, objectUrls>>

\* downloadMultipleFiles(files) up to its first delay, or to its return
DownloadMultipleFiles(list, supported) ==
  /\ Idle
  /\ IF Len(list) = 0
     THEN /\ Returned("downloadMultipleFiles",
                      [files |-> list, supported |-> supported], [list |-> <<>>])
          /\ NoLink
     ELSE DownloadNext(list, 1, supported)
  /\ UNCHANGED <<genVars, uiVars, fileVars>>

\* the 100 ms delay between two downloads is over: the next iteration
DownloadDelayDone ==
  /\ call.fn = "downloadMultipleFiles"
  /\ call.result = <<>>
  /\ DownloadNext(call.args.files, Len(call.results) + 1, call.args.supported)
  /\ UNCHANGED <<genVars, uiVars, fileVars>>

\* the caller takes the result of the call
UtilReturn ==
  /\ call.fn # "none"
  /\ call.result # <<>>
  /\ call' = [fn |-> "none", args |-> <<>>, result |-> <<>>, results |-> <<>>]
  /\ clicked' = <<>>
  /\ UNCHANGED <<objectUrls, genVars, uiVars, fileVars>>

UtilNext ==
  \/ Idle /\ \E filename \in Filenames, content \in {JsString(<<"#">>), JsNull}, supported \in BOOLEAN :
       DownloadFile(filename, content, supported)
  \/ Idle /\ \E pdfBlob \in {JsObject, JsNull}, filename \in Filenames, supported \in BOOLEAN :
       DownloadPDF(pdfBlob, filename, supported)
  \/ Idle /\ \E filename \in Filenames : ValidateFilename(filename)
  \/ Idle /\ \E baseName \in Filenames, existingNames \in ExistingNameLists, iso \in IsoTimes :
       GenerateSafeFilename(baseName, existingNames, iso)
  \/ Idle /\ \E o \in PartialOptions : ValidatePDFOptions(o)
  \/ Idle /\ \E element \in {JsObject, JsNull}, filename \in Filenames :
       GeneratePDFFromElement(element, filename)
  \/ Idle /\ \E list \in FileLists, supported \in BOOLEAN :
       DownloadMultipleFiles(list, supported)
  \/ DownloadDelayDone
  \/ RevokeObjectURL
  \/ \E outcome \in Html2canvasOutcomes : Html2canvasSettled(outcome)
  \/ UtilReturn

\* the generator and FileProvider stand still
UtilInit0 ==
  /\ Init
  /\ generatorClass = "pdfUtils"
  /\ style = [p \in StyleProps |-> ""]

UtilSpec == UtilInit0 /\ [][UtilNext]_vars

(***************************************************************************)
(* Properties of the utilities.                                            *)
(***************************************************************************)
\* the extension a download function expects
Extension(fn) == IF fn = "downloadPDF" THEN PdfExt ELSE MdExt

\* the rule a download function applies to the filename
DownloadName(fn, filename) ==
  IF fn = "downloadPDF" THEN pdfFilename(filename) ELSE fileName(filename)

\* a downloadFile or downloadPDF call that clicked its link
Downloaded ==
  /\ call.fn \in {"downloadFile", "downloadPDF"}
  /\ call.result.success

\* C13: the name a download gives to the browser ends in the expected
\* extension ('.pdf' for downloadPDF, '.md' for downloadFile): a filename that
\* already ends in it is used unchanged, every other filename gets the
\* extension appended, and the rule applied to the name it produced changes
\* nothing.
C13_DownloadNameEndsInExtension ==
  Downloaded
  => LET ext   == Extension(call.fn)
         given == call.args.filename.v
     IN  /\ given # <<>>
         /\ Len(clicked) = 1
         /\ EndsWith(clicked[1], ext)
         /\ EndsWith(given, ext) => clicked[1] = given
         /\ ~EndsWith(given, ext) => clicked[1] = given \o ext
         /\ DownloadName(call.fn, clicked[1]) = clicked[1]

\* downloadPDF of 'a.md' clicked a link named 'a.md.pdf'
C13_Witness ==
  /\ Downloaded
  /\ call.fn = "downloadPDF"
  /\ call.args.filename.v = <<"a", ".", "m", "d">>
  /\ clicked = << <<"a", ".", "m", "d", ".", "p", "d", "f">> >>

\* lo <= x <= hi on numbers: false for NaN
InRange(x, lo, hi) == x # NaN /\ lo <= x[1] /\ x[1] <= hi

\* the defaults C14 names
ClaimedDefaults ==
  [title |-> "Markdown Document", pageSize |-> "a4", orientation |-> "portrait",
   quality |-> Num(98), scale |-> Num(20)]

\* field f of the options o after the defaults are filled
Filled(o, f) ==
  IF Has(o, f) THEN o[f]
  ELSE IF f = "filename" THEN "document" ELSE ClaimedDefaults[f]

\* the error of the first violated constraint in the order filename, quality,
\* scale, pageSize, orientation; "" when the options satisfy all of them
FirstViolated(o) ==
  IF Filled(o, "filename") = "" THEN "Filename must be a non-empty string"
  ELSE IF ~InRange(Filled(o, "quality"), 10, 100) THEN "Quality must be between 0.1 and 1"
  ELSE IF ~InRange(Filled(o, "scale"), 5, 50) THEN "Scale must be between 0.5 and 5"
  ELSE IF Filled(o, "pageSize") \notin {"a4", "letter", "legal"}
       THEN "Page size must be a4, letter, or legal"
  ELSE IF Filled(o, "orientation") \notin {"portrait", "landscape"}
       THEN "Orientation must be portrait or landscape"
  ELSE ""

\* C14: validatePDFOptions returns a record exactly when, after the defaults
\* are filled, filename is non-empty, 0.1 <= quality <= 1, 0.5 <= scale <= 5,
\* pageSize is a4, letter or legal and orientation is portrait or landscape;
\* otherwise it throws the error of the first violated check; the record it
\* returns keeps the supplied fields and holds the default of each missing one.
C14_ReturnsIffOptionsValid ==
  call.fn = "validatePDFOptions"
  => LET o == call.args.options
     IN  /\ call.result.ok <=> FirstViolated(o) = ""
         /\ ~call.result.ok => call.result.error = FirstViolated(o)
         /\ call.result.ok =>
              \A f \in DOMAIN ClaimedDefaults \cup {"filename"} :
                call.result.value[f] = Filled(o, f)

\* the parts of C14 for options whose quality and scale are not NaN
C14_WithoutNaN ==
  (call.fn = "validatePDFOptions"
     /\ Filled(call.args.options, "quality") # NaN
     /\ Filled(call.args.options, "scale") # NaN)
  => C14_ReturnsIffOptionsValid

Digits == {"0", "1", "2", "3", "4", "5", "6", "7", "8", "9"}

\* t has the form dddd-dd-ddTdd-dd-dd
IsTimestamp(t) ==
  /\ Len(t) = 19
  /\ \A i \in 1..19 :
       IF i \in {5, 8, 14, 17} THEN t[i] = "-"
       ELSE IF i = 11 THEN t[i] = "T"
       ELSE t[i] \in Digits

\* name is '<base>_<timestamp>.md'
IsStamped(name, base) ==
  /\ Len(name) = Len(base) + 1 + 19 + 3
  /\ SubSeq(name, 1, Len(base)) = base
  /\ name[Len(base) + 1] = "_"
  /\ IsTimestamp(SubSeq(name, Len(base) + 2, Len(base) + 20))
  /\ EndsWith(name, MdExt)

\* a generateSafeFilename call that returned a name
SafeNameReturned == call.fn = "generateSafeFilename" /\ call.result.ok

\* the sanitized base name is an existing name
SameNameExists ==
  Includes(call.args.existingNames, Sanitized(call.args.baseName.v))

\* the base name has no '.md' and the name with '.md' is an existing name
NameWithMdExists ==
  LET sanitized == Sanitized(call.args.baseName.v)
  IN  /\ ~EndsWith(sanitized, MdExt)
      /\ Includes(call.args.existingNames, sanitized \o MdExt)

\* C15: generateSafeFilename returns the sanitized base name unchanged when it
\* conflicts with no existing name, and '<base without .md>_<timestamp>.md'
\* when it conflicts; a base name without extension conflicts also with the
\* existing name '<baseName>.md'.
C15_SafeFilename ==
  SafeNameReturned
  => LET sanitized == Sanitized(call.args.baseName.v)
     IN  IF SameNameExists \/ NameWithMdExists
         THEN IsStamped(call.result.value, BaseWithoutExt(sanitized))
         ELSE call.result.value = sanitized

\* C15 when only an existing name equal to the sanitized base name conflicts
C15_SameNameOnly ==
  SafeNameReturned
  => LET sanitized == Sanitized(call.args.baseName.v)
     IN  IF SameNameExists
         THEN IsStamped(call.result.value, BaseWithoutExt(sanitized))
         ELSE call.result.value = sanitized

\* a name was stamped
C15_StampedReached ==
  SafeNameReturned /\ SameNameExists /\ call.args.baseName.v = <<"a", ".", "m", "d">>

\* the characters validateFilename replaces
Replaced == InvalidChars \cup Whitespace

\* the positions of s that are not inside a whitespace run after its first
\* character
KeptPositions(s) ==
  { i \in 1..Len(s) : ~(s[i] \in Whitespace /\ i > 1 /\ s[i - 1] \in Whitespace) }

\* out is s with each invalid character and each whitespace run replaced by
\* one '_'
IsSanitizedFrom(out, s) ==
  /\ Len(out) = Cardinality(KeptPositions(s))
  /\ \A i \in KeptPositions(s) :
       out[Cardinality({j \in KeptPositions(s) : j <= i})] =
         IF s[i] \in Replaced THEN "_" ELSE s[i]

C16_TooLongReached ==
  /\ call.fn = "validateFilename"
  /\ call.args.filename = JsString(LongName)
  /\ ~call.result.ok

\* the functions C17 is about
NeverThrowing == {"downloadFile", "downloadPDF", "generatePDFFromElement"}

\* the inputs C17 names: an empty (or missing) filename, content that is no
\* string, a missing blob or element, a browser without the download
\* attribute
BadInput ==
  \/ ~IsNonEmptyString(call.args.filename)
  \/ call.fn = "downloadFile" /\ call.args.content.t # "string"
  \/ call.fn = "downloadPDF" /\ ~Truthy(call.args.pdfBlob)
  \/ call.fn = "generatePDFFromElement" /\ ~Truthy(call.args.element)
  \/ call.fn \in {"downloadFile", "downloadPDF"} /\ ~call.args.supported

\* the messages of the errors the three functions throw on these inputs
InputErrors ==
  { "Invalid filename provided", "Content must be a string",
    "Browser does not support file downloads",
    "PDF blob is required for download", "Valid filename is required",
    "Element is required for PDF generation" }

\* C17: downloadFile, downloadPDF and generatePDFFromElement always resolve
\* with a result (success true, or success false with an error message); for
\* an empty filename, content that is no string, a missing blob or element,
\* or a browser without download support they resolve at once with success
\* false and a message naming the input at fault, and no link is clicked.
C17_NeverThrows ==
  call.fn \in NeverThrowing
  => /\ call.result # <<>> =>
          \/ call.result = Ok
          \/ ~call.result.success /\ call.result.error # ""
     /\ BadInput =>
          /\ call.result # <<>>
          /\ ~call.result.success
          /\ call.result.error \in InputErrors
          /\ clicked = <<>>
     /\ clicked # <<>> => call.result = Ok

\* downloadPDF in a browser without the download attribute resolved with the
\* error and clicked nothing
C17_Witness ==
  /\ call.fn = "downloadPDF"
  /\ Truthy(call.args.pdfBlob)
  /\ IsNonEmptyString(call.args.filename)
  /\ ~call.args.supported
  /\ call.result = Fails("Browser does not support file downloads")
  /\ clicked = <<>>

(***************************************************************************)
(* Properties of cancellation and of the order of the progress events.     *)
(***************************************************************************)
\* run r was cancelled and has not settled
CancelledUnsettled(r) == cancelSeen[r] /\ Active(r)

\* the step clears the cancellation flag
FlagCleared == isCancelled /\ ~isCancelled'

\* the step is a generatePDF call passing the isGenerating guard: it starts a
\* run
RunStarted == \E r \in Calls : pc[r] \in {"new", "import"} /\ pc'[r] = "delay"

\* C18: once cancel() was called during a run the cancellation flag is set at
\* every later step of that run until the run has settled; the flag is
\* cleared only by a generatePDF call that starts a run, and by no call while
\* a cancelled run is unsettled.
C18_CancellationIsLevelTriggered ==
  /\ [](\A r \in Calls : CancelledUnsettled(r) => isCancelled)
  /\ [][FlagCleared => RunStarted /\ \A r \in Calls : ~CancelledUnsettled(r)]_vars

\* the flag is cleared only by a generatePDF call that starts a run
C18_OnlyAStartClears == [][FlagCleared => RunStarted]_vars

\* the last event of the log lg is a 'generating' event
EndsGenerating(lg) == lg # <<>> /\ lg[Len(lg)].stage = "generating"

\* run r is inside the page loop of addImageToPDF
InPageLoop(r) == pc[r] \in {"imgLoad", "pageTimer"}

\* the step of run r adds a page or a slice to the document of the run
SliceAdded(r) == pdf'[r] # pdf[r]

\* the step delivers a 'generating' event of run r
PageEvent(r) == log'[r] # log[r] /\ EndsGenerating(log'[r])

\* C19: after cancel() was called during the page loop of a run, no step of
\* the run crops or appends a further slice and none delivers a further
\* 'generating' event.
C19_NoSliceAfterCancel ==
  [][\A r \in Calls :
       (cancelSeen[r] /\ InPageLoop(r)) => ~SliceAdded(r) /\ ~PageEvent(r)]_vars

\* the place of a stage in the linear order
StageRank(stage) ==
  CASE stage = "preparing"  -> 1
    [] stage = "rendering"  -> 2
    [] stage = "generating" -> 3
    [] stage = "finalizing" -> 4
    [] stage = "complete"   -> 5
    [] OTHER                -> 6

\* the stages of lg never go back in the linear order
InLinearOrder(lg) ==
  \A i, j \in DOMAIN lg :
    (i < j /\ lg[i].stage # "cancelled" /\ lg[j].stage # "cancelled")
    => StageRank(lg[i].stage) <= StageRank(lg[j].stage)

\* an event with stage 'complete' or 'cancelled' is the last of lg
TerminalIsLast(lg) ==
  \A i \in DOMAIN lg : lg[i].stage \in {"complete", "cancelled"} => i = Len(lg)

\* C20: the stages of the events of one run follow the order preparing,
\* rendering, generating, finalizing, complete without going back, and no
\* event of the run is delivered after one with stage 'complete' or
\* 'cancelled'.
C20_StagesLinearAndTerminal ==
  \A r \in Calls : InLinearOrder(log[r]) /\ TerminalIsLast(log[r])

\* the order part of C20
C20_Order == \A r \in Calls : InLinearOrder(log[r])

\* no event follows 'complete'
C20_CompleteIsLast ==
  \A r \in Calls : \A i \in DOMAIN log[r] : log[r][i].stage = "complete" => i = Len(log[r])

\* C20 for runs during which cancel() was called at most once and no second
\* call was made
C20_OneCancelOneRun ==
  (nCancels <= 1 /\ \A r \in Calls : r > 1 => pc[r] = "new")
  => C20_StagesLinearAndTerminal

(***************************************************************************)
(* Properties of the assembled document.                                   *)
(***************************************************************************)
\* run r of the element variant resolved with the document
Assembled(r) ==
  /\ generatorClass = "pdfGenerator"
  /\ pc[r] = "settled"
  /\ result[r].success

\* C21: the document of a run that resolved with success has one page, with
\* the whole image on it, when the scaled content fits the content height,
\* and otherwise totalPages pages with one slice on each: slice i (from 0)
\* is on page i + 1, so the first slice is on the page the document starts
\* with, one page is added before each later slice, and the slices are in
\* increasing index.
C21_PagesOfDocument ==
  \A r \in Calls :
    Assembled(r)
    => IF FitsOnePage(canvas[r], options[r])
       THEN /\ pdf[r].pages = 1
            /\ Len(pdf[r].images) = 1
            /\ pdf[r].images[1].page = 1
            /\ paging[r] = <<>>
       ELSE /\ paging[r] # <<>>
            /\ pdf[r].pages = paging[r].totalPages
            /\ Len(pdf[r].images) = paging[r].totalPages
            /\ \A i \in DOMAIN pdf[r].images :
                 /\ pdf[r].images[i].page = i
                 /\ REq(pdf[r].images[i].sourceY,
                        RMul(RInt(i - 1), paging[r].pageContentHeightPx))

\* a run resolved with a document of two pages
C21_Witness ==
  \E r \in Calls :
    /\ Assembled(r)
    /\ ~FitsOnePage(canvas[r], options[r])
    /\ pdf[r].pages = 2
    /\ Len(pdf[r].images) = 2

(***************************************************************************)
(* One generatePDF call of the element variant, with canvases of one to    *)
(* four page slices and the page formats, orientations and margins a       *)
(* caller passes; cancel() may be called at any moment.                    *)
(***************************************************************************)
\* the canvases html2canvas resolves with
TallCanvases ==
  { [width |-> 1000, height |-> h] : h \in {1000, 6000, 12000, 20000} }

\* the options of the call: pageSize, orientation and margin given or left
\* out
PageOptions ==
  { [filename |-> "doc"] @@ a @@ b @@ c :
      a \in FieldOptions("pageSize", {"a4", "letter", "legal"}),
      b \in FieldOptions("orientation", {"portrait", "landscape"}),
      c \in FieldOptions("margin", {[top |-> 10, right |-> 10, bottom |-> 10, left |-> 10]}) }

AssemblyNext ==
  \/ Cancel
  \/ \E o \in PageOptions : GeneratePDF(1, o)
  \/ DelayDone(1)
  \/ RenderTimer(1)
  \/ \E c \in TallCanvases : Html2canvasResolve(1, c)
  \/ \E msg \in RenderErrors : Html2canvasReject(1, msg)
  \/ \E fault \in {"none", "toDataURL", "addImage", "getContext", "output"} :
        CreateTimer(1, fault)
  \/ \E fault \in {"none", "drawImage"} : ImgOnload(1, fault)
  \/ ImgOnerror(1)
  \/ \E fault \in {"none", "getContext", "output"} : PageTimer(1, fault)
  \/ Return(1)

AssemblyInit ==
  /\ Init
  /\ generatorClass = "pdfGenerator"
  /\ style = [p \in StyleProps |-> ""]

AssemblySpec == AssemblyInit /\ [][AssemblyNext]_vars

\* the events of the log lg that addNextPage delivered: the 'generating'
\* events after the first, which is the one generatePDF delivers
PageEvents(lg) ==
  LET IsGenerating(ev) == ev.stage = "generating"
      gen == SelectSeq(lg, IsGenerating)
  IN  IF gen = <<>> THEN <<>> ELSE Tail(gen)

\* C22: the page event of slice i (0 <= i < totalPages) carries the percent
\* 60 + 30 * i / totalPages: the percents of the page events of a run start
\* at 60, the percent of the 'generating' stage, increase strictly from slice
\* to slice and stay below 90, the percent of 'finalizing'.
C22_PagePercent ==
  \A r \in Calls :
    LET ev == PageEvents(log[r])
    IN  ev # <<>> =>
          /\ paging[r] # <<>>
          /\ Len(ev) <= paging[r].totalPages
          /\ REq(ev[1].progress, RInt(60))
          /\ \A k \in DOMAIN ev :
               /\ REq(ev[k].progress,
                      RAdd(RInt(60), RDiv(RInt(30 * (k - 1)), RInt(paging[r].totalPages))))
               /\ RLess(ev[k].progress, RInt(90))
               /\ k > 1 => RLess(ev[k - 1].progress, ev[k].progress)

\* a run delivered the page events of four slices: 60, 67.5, 75, 82.5
C22_Witness ==
  \E r \in Calls :
    /\ paging[r] # <<>>
    /\ paging[r].totalPages = 4
    /\ Len(PageEvents(log[r])) = 4
    /\ REq(PageEvents(log[r])[4].progress, Rat(825, 10))

\* the positions at which a run awaits a timer, html2canvas, the image or
\* the continuation of its caller
Awaiting ==
  {"delay", "renderTimer", "html2canvas", "createTimer", "imgLoad", "pageTimer", "settled"}

\* the step that takes call r on from position p: the timer, the callback of
\* html2canvas or of the image, or the caller's continuation, whichever is
\* awaited at p; it is enabled exactly when call r is at p
StepFrom(r, p) ==
  /\ pc[r] = p
  /\ pc' \in { [pc EXCEPT ![r] = q] : q \in (Awaiting \cup {"done"}) \ {p} }

\* timers fire, html2canvas resolves or rejects, the image loads or fails
\* to load, and the continuation of the caller runs
AssemblyFairness == \A p \in Awaiting : WF_pc(StepFrom(1, p))

FairAssemblySpec == AssemblySpec /\ AssemblyFairness

\* the promise of call r has resolved
Settled(r) == pc[r] \in {"settled", "done"}

\* the page loop of run r has made as many iterations as it has slices
LoopComplete(r) == currentPage[r] = paging[r].totalPages

DocFormat(o) == IF Has(o, "pageSize") THEN o.pageSize ELSE "a4"

\* new jsPDF({ orientation: options.orientation || 'portrait' })
DocOrientation(o) == IF Has(o, "orientation") THEN o.orientation ELSE "portrait"

\* the portrait width and height of a page format, in mm
FormatSize(format) ==
  CASE format = "a4"     -> [width |-> 210, height |-> 297]
    [] format = "letter" -> [width |-> 216, height |-> 279]
    [] format = "legal"  -> [width |-> 216, height |-> 356]

\* the width and height of the pages of a document of this format and
\* orientation
DocPageSize(format, orientation) ==
  IF orientation = "landscape"
  THEN [width |-> FormatSize(format).height, height |-> FormatSize(format).width]
  ELSE FormatSize(format)

\* run r has created its document
DocumentCreated(r) == generatorClass = "pdfGenerator" /\ pdf[r] # <<>>

\* the page width and height run r computes with are those of its document
PageSizeMatches(r) ==
  LET o    == options[r]
      page == DocPageSize(DocFormat(o), DocOrientation(o))
  IN  PageWidth(o) = page.width /\ PageHeight(o) = page.height

\* C25: the page width and height from which a run computes the content
\* width, the content height and the slices are those of the format and
\* orientation of the document it creates: 210 x 297 mm when pageSize is
\* omitted (the document is a4), the swapped dimensions for landscape.
C25_PageSizeOfDocument ==
  \A r \in Calls : DocumentCreated(r) => PageSizeMatches(r)

\* C25 for the calls that give a pageSize and are not landscape
C25_PortraitWithPageSize ==
  \A r \in Calls :
    (DocumentCreated(r) /\ Has(options[r], "pageSize")
       /\ DocOrientation(options[r]) = "portrait")
    => PageSizeMatches(r)

\* a landscape document is never computed with its own page size
C25_LandscapeNeverMatches ==
  \A r \in Calls :
    (DocumentCreated(r) /\ DocOrientation(options[r]) = "landscape")
    => ~PageSizeMatches(r)

\* the runs of the HTML-string variant that have created their temporary
\* container and have not settled
HoldingContainer == { r \in Calls : pc[r] = "html2pdf" }

\* C26: in the HTML-string variant the temporary containers attached to
\* document.body are those of the runs that have not settled: a run that
\* has settled, with success, with 'Cancelled' after it created its
\* container, or with a failure, has removed the container it created.
C26_ContainerRemoved ==
  generatorClass = "pdfUtils" => containers = Cardinality(HoldingContainer)

\* the step in which a run resolves with success removes its container
C26_RemovedOnSuccess ==
  [][\A r \in Calls :
       (pc[r] = "html2pdf" /\ pc'[r] = "settled" /\ result'[r].success)
       => containers' = containers - 1]_vars


(***************************************************************************)
(* C24  downloadMultipleFiles                                              *)
(***************************************************************************)

\* downloadMultipleFiles has returned its list of results
MultipleReturned == call.fn = "downloadMultipleFiles" /\ call.result # <<>>

\* what downloadFile returns for one file of the list
ResultOf(file, supported) ==
  Caught(DownloadFileError(file.filename, file.content, supported))

\* the download names of the files of the list that download, in list order
NamesDownloaded(list, supported) ==
  LET Succeeds(file) == ResultOf(file, supported).success
      ok       == SelectSeq(list, Succeeds)
  IN  [i \in 1..Len(ok) |-> fileName(ok[i].filename.v)]

\* C24: downloadMultipleFiles(files) returns exactly one result per input
\* file, in input order, each the result of downloadFile on that file; a
\* failed download does not stop the remaining ones, so every file of the list
\* that can be downloaded is downloaded, in list order; for an empty list the
\* result is the empty list and nothing is downloaded.
C24_OneResultPerFile ==
  MultipleReturned =>
    LET given == call.args.files
        list  == call.result.list
    IN  /\ Len(list) = Len(given)
        /\ \A i \in 1..Len(given) : list[i] = ResultOf(given[i], call.args.supported)
        /\ clicked = NamesDownloaded(given, call.args.supported)
        /\ Len(given) = 0 => list = <<>> /\ clicked = <<>>

\* a list whose first file fails and whose second file is downloaded
C24_Witness ==
  /\ MultipleReturned
  /\ Len(call.args.files) = 2
  /\ ~call.result.list[1].success
  /\ call.result.list[2].success
  /\ Len(clicked) = 1

\* the empty list has been passed
C24_EmptyReached == MultipleReturned /\ Len(call.args.files) = 0


(***************************************************************************)
(* FileProvider's file list and the IndexedDB database (part_002,          *)
(* indexedDB.ts).  An id is the number Date.now() returned when the file   *)
(* or backup was made, 0 stands for a null currentFileId, and the database *)
(* never fails.  Every call of a handler happens at a later millisecond    *)
(* than the call before it.                                                *)
(***************************************************************************)

\* the last millisecond at which a handler of FileProvider is called
MaxNow == 3

\* currentFileId is null
NoFile == 0

\* new Date(ms)
Date(ms) == [time |-> ms]

\* date.getTime()
getTime(date) == date.time

\* the names and contents the handlers are called with
GivenName == <<"n">>
NewName == <<"r">>
ImportedName == <<"f">>
Contents == {"", "x"}

\* `Untitled-${files.length + 1}.md`
Untitled(n) == <<"Untitled-", ToString(n), ".md">>

\* the FileRecord that saveFiles, createBackup and importData make of a
\* FileItem
FileRecord(file) ==
  [id           |-> file.id,
   name         |-> file.name,
   content      |-> file.content,
   lastModified |-> getTime(file.lastModified),
   createdAt    |-> getTime(file.lastModified),
   isDirty      |-> file.isDirty]

FileRecords(list) == [i \in 1..Len(list) |-> FileRecord(list[i])]

\* {...file, lastModified: new Date(file.lastModified)}
Converted(record) == [record EXCEPT !.lastModified = Date(@)]

ConvertedFiles(records) == [i \in 1..Len(records) |-> Converted(records[i])]

\* the ids of a list of files
Ids(list) == { list[i].id : i \in 1..Len(list) }

\* store.put(value) under the key
Put(store, key, value) ==
  [k \in DOMAIN store \cup {key} |-> IF k = key THEN value ELSE store[k]]

\* one store.put per record of the list, in list order
RECURSIVE PutAll(_, _)
PutAll(store, records) ==
  IF records = <<>> THEN store
  ELSE PutAll(Put(store, Head(records).id, Head(records)), Tail(records))

\* store.getAll(): the values in key order
RECURSIVE GetAll(_)
GetAll(store) ==
  IF DOMAIN store = {} THEN <<>>
  ELSE LET k == CHOOSE k \in DOMAIN store : \A j \in DOMAIN store : k <= j
       IN  <<store[k]>> \o GetAll([j \in DOMAIN store \ {k} |-> store[j]])

\* savePreferences: store.put({ key: 'userPreferences', ...preferences })
SavePreferences(store, preferences) ==
  Put(store, "userPreferences", preferences @@ [key |-> "userPreferences"])

\* getPreferences: the stored record without its key, or null
NoPreferences == <<>>

GetPreferences(store) ==
  IF "userPreferences" \in DOMAIN store
  THEN [f \in DOMAIN store["userPreferences"] \ {"key"} |->
          store["userPreferences"][f]]
  ELSE NoPreferences

\* indexedDBService.exportData()
ExportedData ==
  [files |-> GetAll(filesStore), preferences |-> GetPreferences(prefsStore)]

\* the data importData is called with: files of an earlier session, with or
\* without preferences
OldFile(id) ==
  [id |-> id, name |-> ImportedName, content |-> "x",
   lastModified |-> Date(0), isDirty |-> FALSE]

ImportedData ==
  { [files |-> <<>>, preferences |-> NoPreferences],
    [files |-> <<OldFile(1)>>, preferences |-> [theme |-> "dark"]],
    [files |-> <<OldFile(5), OldFile(1)>>, preferences |-> NoPreferences] }

\* the backup ids restoreBackup is called with
KnownIds == 1..MaxNow

\* currentFile?.content || ""
CurrentContent(list, id) ==
  LET IsCurrent(file) == file.id = id
      found == SelectSeq(list, IsCurrent)
  IN  IF found = <<>> THEN "" ELSE found[1].content

\* the render after a handler or an effect has set state: saveFiles runs when
\* files or isLoading changed, and the auto-save effect is due when
\* currentFileId or the content of the current file changed
Render(filesSet, due) ==
  /\ saving' = IF filesSet /\ ~isLoading' /\ Len(files') > 0
               THEN PutAll(saving, FileRecords(files'))
               ELSE saving
  /\ autoSaveDue' = (\/ due
                     \/ currentFileId' # currentFileId
                     \/ CurrentContent(files', currentFileId')
                          # CurrentContent(files, currentFileId))

\* a handler is called, a millisecond or more after the last one
Later ==
  /\ now < MaxNow
  /\ now' = now + 1

\* what a handler of the file list leaves alone
NoDatabase ==
  UNCHANGED <<filesStore, prefsStore, backupsStore, op, settlement, lastImport,
              genVars, uiVars, utilVars>>

\* the effect that loads the files on mount
LoadFiles ==
  /\ isLoading
  /\ files' = ConvertedFiles(GetAll(filesStore))
  /\ isLoading' = FALSE
  /\ UNCHANGED <<currentFileId, now>>
  /\ Render(TRUE, autoSaveDue)
  /\ NoDatabase

\* a run of saveFiles has put its records
SaveDone ==
  /\ saving # <<>>
  /\ filesStore' = PutAll(filesStore, GetAll(saving))
  /\ saving' = <<>>
  /\ lastImport' = <<>>
  /\ UNCHANGED <<files, currentFileId, isLoading, autoSaveDue, prefsStore,
                 backupsStore, now, op, settlement, genVars, uiVars, utilVars>>

\* the auto-save effect
AutoSave ==
  /\ autoSaveDue
  /\ IF currentFileId # NoFile
     THEN /\ files' = [i \in 1..Len(files) |->
                         IF files[i].id = currentFileId
                         THEN [files[i] EXCEPT !.isDirty = FALSE,
                                               !.lastModified = Date(now)]
                         ELSE files[i]]
          /\ UNCHANGED <<currentFileId, isLoading, now>>
          /\ Render(TRUE, FALSE)
     ELSE /\ autoSaveDue' = FALSE
          /\ UNCHANGED <<files, currentFileId, isLoading, now, saving>>
  /\ NoDatabase

\* the file createFile and importFile's onload make
NewFile(name, content) ==
  [id |-> now + 1, name |-> name, content |-> content,
   lastModified |-> Date(now + 1), isDirty |-> FALSE]

\* createFile(name); name is <<>> when it is omitted
CreateFile(name) ==
  /\ Later
  /\ files' = Append(files, NewFile(IF name = <<>> THEN Untitled(Len(files) + 1)
                                    ELSE name, ""))
  /\ currentFileId' = now + 1
  /\ UNCHANGED isLoading
  /\ Render(TRUE, autoSaveDue)
  /\ NoDatabase

\* updateFile(id, content)
UpdateFile(id, content) ==
  /\ files' = [i \in 1..Len(files) |->
                 IF files[i].id = id /\ files[i].content # content
                 THEN [files[i] EXCEPT !.content = content,
                                       !.lastModified = Date(now + 1),
                                       !.isDirty = TRUE]
                 ELSE files[i]]
  /\ Later
  /\ UNCHANGED <<currentFileId, isLoading>>
  /\ Render(TRUE, autoSaveDue)
  /\ NoDatabase

\* selectFile(id)
SelectFile(id) ==
  /\ currentFileId' = id
  /\ Later
  /\ UNCHANGED <<files, isLoading>>
  /\ Render(FALSE, autoSaveDue)
  /\ NoDatabase

\* prev.filter(file => file.id !== id)
Without(list, id) ==
  LET Other(file) == file.id # id
  IN  SelectSeq(list, Other)

\* the file deleteFile selects when the current file is deleted
FirstRemaining(remainingFiles) ==
  IF Len(remainingFiles) > 0 THEN remainingFiles[1].id ELSE NoFile

\* deleteFile(id)
DeleteFile(id) ==
  /\ files' = Without(files, id)
  /\ currentFileId' = IF currentFileId = id
                      THEN FirstRemaining(Without(files, id))
                      ELSE currentFileId
  /\ Later
  /\ UNCHANGED isLoading
  /\ Render(TRUE, autoSaveDue)
  /\ NoDatabase

\* renameFile(id, newName)
RenameFile(id, newName) ==
  /\ files' = [i \in 1..Len(files) |->
                 IF files[i].id = id
                 THEN [files[i] EXCEPT !.name = newName,
                                       !.lastModified = Date(now + 1)]
                 ELSE files[i]]
  /\ Later
  /\ UNCHANGED <<currentFileId, isLoading>>
  /\ Render(TRUE, autoSaveDue)
  /\ NoDatabase

\* importFile(file): the reader's onload
ImportFile(name, content) ==
  /\ Later
  /\ files' = Append(files, NewFile(name, content))
  /\ currentFileId' = now + 1
  /\ UNCHANGED isLoading
  /\ Render(TRUE, autoSaveDue)
  /\ NoDatabase

\* createBackup(): the files of this render are put under a new backup id
CreateBackup ==
  /\ Later
  /\ backupsStore' = Put(backupsStore, now + 1,
                         [id |-> now + 1, timestamp |-> now + 1,
                          files |-> FileRecords(files), version |-> "1.0"])
  /\ UNCHANGED <<files, currentFileId, isLoading, autoSaveDue, saving,
                 filesStore, prefsStore, op, settlement, lastImport,
                 genVars, uiVars, utilVars>>

\* restoreBackup, importData or clearAllData is called and awaits the
\* database
Await(fn, arg) ==
  /\ op.fn = "none"
  /\ op' = [fn |-> fn, arg |-> arg]
  /\ Later
  /\ UNCHANGED <<files, currentFileId, isLoading, autoSaveDue, saving,
                 filesStore, prefsStore, backupsStore, settlement,
                 lastImport, genVars, uiVars, utilVars>>

\* store.get(backupId) finds a backup with files
BackupFound(store, backupId) ==
  /\ backupId \in DOMAIN store
  /\ "files" \in DOMAIN store[backupId]

\* a restoreBackup that resolves with no files when it finds no backup
restoreBackup_ResolveEmpty(store, backupId) ==
  IF BackupFound(store, backupId)
  THEN [error |-> "", files |-> store[backupId].files]
  ELSE [error |-> "", files |-> <<>>]

\* indexedDBService.restoreBackup(backupId): the files of the backup, or the
\* error it rejects with
restoreBackup(store, backupId) ==
  IF BackupFound(store, backupId)
  THEN [error |-> "", files |-> store[backupId].files]
  ELSE [error |-> "Backup not found or invalid", files |-> <<>>]

\* restoreBackup(backupId) settles
RestoreSettled ==
  /\ op.fn = "restoreBackup"
  /\ op' = [fn |-> "none"]
  /\ LET restored == restoreBackup(backupsStore, op.arg)
     IN  /\ settlement' = [fn |-> "restoreBackup", arg |-> op.arg,
                           error |-> restored.error]
         /\ IF restored.error = ""
            THEN /\ files' = ConvertedFiles(restored.files)
                 /\ UNCHANGED <<currentFileId, isLoading>>
                 /\ Render(TRUE, autoSaveDue)
            ELSE UNCHANGED <<files, currentFileId, isLoading, autoSaveDue,
                             saving>>
  /\ UNCHANGED <<filesStore, prefsStore, backupsStore, now, lastImport,
                 genVars, uiVars, utilVars>>

\* indexedDBService.importData(data) on the stores
ImportedFiles(data) == PutAll(<<>>, data.files)

ImportedPreferences(store, data) ==
  IF data.preferences # NoPreferences
  THEN SavePreferences(store, data.preferences)
  ELSE store

\* importData(data) settles
ImportSettled ==
  /\ op.fn = "importData"
  /\ op' = [fn |-> "none"]
  /\ LET data == [files       |-> FileRecords(op.arg.files),
                  preferences |-> op.arg.preferences]
     IN  /\ filesStore' = ImportedFiles(data)
         /\ prefsStore' = ImportedPreferences(prefsStore, data)
         /\ lastImport' = data
  /\ files' = op.arg.files
  /\ settlement' = [fn |-> "importData", arg |-> <<>>, error |-> ""]
  /\ UNCHANGED <<currentFileId, isLoading>>
  /\ Render(TRUE, autoSaveDue)
  /\ UNCHANGED <<backupsStore, now, genVars, uiVars, utilVars>>

\* exportData(): what indexedDBService.exportData() returned
ExportData ==
  /\ settlement' = [fn |-> "exportData", arg |-> ExportedData, error |-> ""]
  /\ Later
  /\ UNCHANGED <<files, currentFileId, isLoading, autoSaveDue, saving,
                 filesStore, prefsStore, backupsStore, op, lastImport,
                 genVars, uiVars, utilVars>>

\* clearAllData() settles
ClearSettled ==
  /\ op.fn = "clearAllData"
  /\ op' = [fn |-> "none"]
  /\ filesStore' = <<>>
  /\ prefsStore' = <<>>
  /\ backupsStore' = <<>>
  /\ lastImport' = <<>>
  /\ files' = <<>>
  /\ currentFileId' = NoFile
  /\ settlement' = [fn |-> "clearAllData", arg |-> <<>>, error |-> ""]
  /\ UNCHANGED isLoading
  /\ Render(TRUE, autoSaveDue)
  /\ UNCHANGED <<now, genVars, uiVars, utilVars>>

\* the page is loaded again: FileProvider is mounted over the database as it
\* is, and the puts still waiting are lost
Reload ==
  /\ ~isLoading
  /\ files' = <<>>
  /\ currentFileId' = NoFile
  /\ isLoading' = TRUE
  /\ autoSaveDue' = FALSE
  /\ saving' = <<>>
  /\ op' = [fn |-> "none"]
  /\ settlement' = [fn |-> "none"]
  /\ Later
  /\ UNCHANGED <<filesStore, prefsStore, backupsStore, lastImport,
                 genVars, uiVars, utilVars>>

\* createFile, updateFile, renameFile and deleteFile with the effects of
\* FileProvider
FilesNext ==
  \/ LoadFiles
  \/ SaveDone
  \/ AutoSave
  \/ \E name \in {<<>>, GivenName} : CreateFile(name)
  \/ \E id \in Ids(files), content \in Contents : UpdateFile(id, content)
  \/ \E id \in Ids(files) : RenameFile(id, NewName)
  \/ \E id \in Ids(files) : DeleteFile(id)
  \/ Reload

FilesSpec == ExportInit /\ [][FilesNext]_vars

\* every operation of FileProvider on the file list and the database
ProviderNext ==
  \/ LoadFiles
  \/ SaveDone
  \/ AutoSave
  \/ \E name \in {<<>>, GivenName} : CreateFile(name)
  \/ \E id \in Ids(files) : DeleteFile(id)
  \/ \E id \in Ids(files) : SelectFile(id)
  \/ ImportFile(ImportedName, "x")
  \/ CreateBackup
  \/ \E backupId \in KnownIds : Await("restoreBackup", backupId)
  \/ \E data \in ImportedData : Await("importData", data)
  \/ Await("clearAllData", <<>>)
  \/ RestoreSettled
  \/ ImportSettled
  \/ ExportData
  \/ ClearSettled

ProviderSpec == ExportInit /\ [][ProviderNext]_vars


(***************************************************************************)
(* Properties of the file list and of the database.                        *)
(***************************************************************************)

\* currentFileId is null or the id of a file of the list
CurrentListed == currentFileId = NoFile \/ currentFileId \in Ids(files)

\* C27: once the files are loaded, no operation of FileProvider (createFile,
\* selectFile of an existing id, deleteFile, importFile, restoreBackup,
\* importData, clearAllData) takes a state in which currentFileId is null or
\* the id of a file in files to a state in which it is neither.
C27_CurrentFileListed ==
  [][(~isLoading /\ CurrentListed) => CurrentListed']_vars

\* a step of deleteFile on the current file
DeletesCurrent ==
  /\ currentFileId \in Ids(files)
  /\ op' = op /\ now' = now + 1
  /\ files' = Without(files, currentFileId)

\* deleting the current file selects the first remaining file, or null
C27_DeleteSelectsFirst ==
  [][DeletesCurrent =>
       currentFileId' = IF files' = <<>> THEN NoFile ELSE files'[1].id]_vars

\* the handlers that return at once keep currentFileId listed
C27_HandlersKeepListed ==
  [][(CurrentListed /\ op' = op /\ now' = now + 1) => CurrentListed']_vars

\* no step deletes the current file while another file remains
C27_NeverDeletesCurrent == [][~(DeletesCurrent /\ files' # <<>>)]_vars

\* a restored backup has left currentFileId naming no file of the list
C27_RestoreDangles ==
  /\ settlement.fn = "restoreBackup" /\ settlement.error = ""
  /\ ~CurrentListed


\* no run of saveFiles is waiting
SaveFinished == ~isLoading /\ saving = <<>>

\* C28: after any sequence of createFile, updateFile, renameFile and
\* deleteFile, once the persistence effect has finished, the ids in the
\* 'files' store are the ids of the in-memory list, so that getAllFiles
\* returns no deleted file on the next load.
C28_StoreMatchesFiles ==
  SaveFinished => DOMAIN filesStore = Ids(files)

\* what holds instead: every file of the list is in the store with its
\* current fields
C28_ListedFilesStored ==
  SaveFinished =>
    \A i \in 1..Len(files) :
      /\ files[i].id \in DOMAIN filesStore
      /\ filesStore[files[i].id] = FileRecord(files[i])

\* every file has been deleted, no put is waiting, and the store still
\* holds a file for the next load
C28_StoreKeepsDeleted ==
  /\ SaveFinished
  /\ files = <<>>
  /\ filesStore # <<>>


\* exportData() has returned right after importData(d): nothing else has
\* written to the database since
ExportedAfterImport == settlement.fn = "exportData" /\ lastImport # <<>>

\* the elements of a list
Elements(list) == { list[i] : i \in 1..Len(list) }

\* the exported files are exactly the files of d
FilesOfImport ==
  /\ Len(settlement.arg.files) = Len(lastImport.files)
  /\ Elements(settlement.arg.files) = Elements(lastImport.files)

\* C29: indexedDBService.importData(d) followed by exportData() returns
\* exactly the files of d, whatever the store held before, and the
\* preferences of d, null included.
C29_ExportReturnsImport ==
  ExportedAfterImport =>
    /\ FilesOfImport
    /\ settlement.arg.preferences = lastImport.preferences

\* what holds instead: the files are those of d, and so are the preferences
\* when d has preferences
C29_ExceptNullPreferences ==
  ExportedAfterImport =>
    /\ FilesOfImport
    /\ lastImport.preferences # NoPreferences =>
         settlement.arg.preferences = lastImport.preferences

\* data with two files, given out of key order, has been imported and
\* exported
C29_FilesReplaced ==
  /\ ExportedAfterImport
  /\ Len(lastImport.files) = 2
  /\ settlement.arg.files[1].id < settlement.arg.files[2].id


\* the step in which restoreBackup settles
RestoreSettles == op.fn = "restoreBackup" /\ op'.fn = "none"

\* the file list is exactly the files of the backup: as many files, each
\* with the id, name, content, modification time and dirty flag of the backup
IsBackup(list, backup) ==
  /\ Len(list) = Len(backup.files)
  /\ \A i \in 1..Len(list) :
       /\ list[i].id = backup.files[i].id
       /\ list[i].name = backup.files[i].name
       /\ list[i].content = backup.files[i].content
       /\ list[i].isDirty = backup.files[i].isDirty
       /\ getTime(list[i].lastModified) = backup.files[i].lastModified

\* C30: restoreBackup with an id that is not in the 'backups' store rejects
\* with 'Backup not found or invalid' and leaves the file list and
\* currentFileId as they were; with the id of a stored backup it replaces the
\* file list by exactly the files of that backup.
C30_RestoreBackup ==
  [][RestoreSettles =>
       IF op.arg \in DOMAIN backupsStore
       THEN /\ settlement'.error = ""
            /\ IsBackup(files', backupsStore[op.arg])
       ELSE /\ settlement'.error = "Backup not found or invalid"
            /\ files' = files
            /\ currentFileId' = currentFileId]_vars

\* a restore of an unknown backup was rejected while the list held a file
C30_Witness ==
  /\ settlement.fn = "restoreBackup"
  /\ settlement.error = "Backup not found or invalid"
  /\ settlement.arg \notin DOMAIN backupsStore
  /\ files # <<>>
  /\ currentFileId # NoFile

\* a backup with a file has replaced an empty list
C30_RestoredReached ==
  /\ settlement.fn = "restoreBackup"
  /\ settlement.error = ""
  /\ settlement.arg \in DOMAIN backupsStore
  /\ files # <<>>
  /\ IsBackup(files, backupsStore[settlement.arg])
  /\ currentFileId = NoFile

=============================================================================
